---- MODULE Spec2Model ----
(***************************************************************************)
(* Gait analysis core of phimotion3agent: the gait cycle detector          *)
(* (services/gait/gaitCycleDetection.ts) and the per-joint range-of-motion *)
(* calculators (hip ROMCalculator, knee KneeGraphGenerator, ankle          *)
(* AnkleROMCalculator), the gait phase detector                            *)
(* (services/gait/gaitPhaseDetection.ts), the knee CSV export and the      *)
(* useAnalysis hook (hooks/useAnalysis.ts).                                *)
(*                                                                         *)
(* Numbers.  Angles are integers counting tenths of a degree, times are    *)
(* integers counting milliseconds, so Math.round(x * 10) / 10 of the code  *)
(* is rounding to an integer number of tenths.  Arithmetic is exact: the   *)
(* binary floating point error of the JavaScript numbers is not modelled.  *)
(* Confidences are exact rationals [n |-> numerator, d |-> denominator].   *)
(* A value that may be NaN is a sequence: <<v>> for the number v, <<>> for *)
(* NaN.                                                                    *)
(***************************************************************************)
EXTENDS Integers, Sequences, FiniteSets

VARIABLES
    stage,        \* position in the pipeline being exercised
    frameRate,    \* frames per second of the recording
    data,         \* GaitData[]: one record per frame
    icEvents,     \* GaitEvent[] returned by detectInitialContacts
    cycles,       \* GaitCycle[] returned by extractGaitCycles
    leftAngles,   \* left leg angle series handed to a ROM calculator
    rightAngles,  \* right leg angle series handed to a ROM calculator
    mode,         \* gait mode of the knee generator
    analysis,     \* result of the last bilateral ROM analysis
    pointsCount,       \* pointsCount handed to normalizeGaitCycles
    normalizedCycles,  \* result of normalizeGaitCycles
    averages,          \* result of calculateAverageAngles
    percent,      \* percent handed to getPhaseAtPercent
    phase,        \* GaitPhase | null returned by getPhaseAtPercent
    transitions,  \* GaitPhaseTransition[] handed to validateTransitions
    validated,    \* GaitPhaseTransition[] returned by validateTransitions
    dataPoints,   \* KneeDataPoint[] handed to generateCSVData
    csvContent,   \* text returned by generateCSVData
    status,           \* useAnalysis: AnalysisStatus
    progress,         \* useAnalysis: progress
    error,            \* useAnalysis: error message or null
    currentVideo,     \* useAnalysis: VideoFile or null
    analysisHistory,  \* useAnalysis: AnalysisResult[]
    calls,            \* startAnalysis calls in flight, oldest first
    lastCall          \* which of startAnalysis / resetAnalysis ran last

vars == <<stage, frameRate, data, icEvents, cycles,
          leftAngles, rightAngles, mode, analysis,
          pointsCount, normalizedCycles, averages,
          percent, phase, transitions, validated,
          dataPoints, csvContent,
          status, progress, error, currentVideo, analysisHistory, calls, lastCall>>

cycleVars == <<frameRate, data, icEvents, cycles>>
romVars == <<leftAngles, rightAngles, mode, analysis>>
normVars == <<pointsCount, normalizedCycles, averages>>
phaseVars == <<percent, phase, transitions, validated>>
exportVars == <<dataPoints, csvContent>>
hookVars == <<status, progress, error, currentVideo, analysisHistory, calls, lastCall>>

(***************************************************************************)
(* Bounds of the explored inputs.                                          *)
(***************************************************************************)
\* frames of a recording at the slow frame rate
MaxFrames == 18
\* frames per leg at which the foot-contact flag is true
MaxContacts == 3
\* samples of an angle series handed to a ROM calculator
MaxLen == 11
\* samples of a series long enough that its anatomical zero leaves out its
\* end and its percentiles leave out its extremes
LongLen == 21

(***************************************************************************)
(* Arithmetic helpers.                                                     *)
(***************************************************************************)
Abs(x) == IF x < 0 THEN -x ELSE x

Min2(a, b) == IF a <= b THEN a ELSE b

Max2(a, b) == IF a >= b THEN a ELSE b

\* floor(a / b) for b > 0
FloorDiv(a, b) == IF a >= 0 THEN a \div b ELSE -((-a + b - 1) \div b)

\* Math.round(a / b) for b > 0: the nearest integer, a half rounding up
RoundDiv(a, b) == FloorDiv(2 * a + b, 2 * b)

RECURSIVE SeqSum(_)
SeqSum(s) == IF s = <<>> THEN 0 ELSE Head(s) + SeqSum(Tail(s))

RECURSIVE SeqMax(_)
SeqMax(s) == IF Len(s) = 1 THEN s[1] ELSE Max2(Head(s), SeqMax(Tail(s)))

RECURSIVE SeqMin(_)
SeqMin(s) == IF Len(s) = 1 THEN s[1] ELSE Min2(Head(s), SeqMin(Tail(s)))

\* Array.prototype.slice(from, to) with 0-based bounds, clipped to the array
Slice(s, from, to) ==
    LET lo == Max2(from, 0)
        hi == Min2(to, Len(s))
    IN  IF hi <= lo THEN <<>> ELSE [k \in 1..(hi - lo) |-> s[lo + k]]

\* [...a].sort((x, y) => x - y): insertion of each element after its equals
RECURSIVE InsertAsc(_, _)
InsertAsc(s, x) ==
    IF s = <<>> THEN <<x>>
    ELSE IF x < Head(s) THEN <<x>> \o s
    ELSE <<Head(s)>> \o InsertAsc(Tail(s), x)

RECURSIVE SortAsc(_)
SortAsc(s) == IF s = <<>> THEN <<>> ELSE InsertAsc(SortAsc(Slice(s, 0, Len(s) - 1)), s[Len(s)])

(***************************************************************************)
(* Gait cycle detector: gaitCycleDetection.ts                              *)
(***************************************************************************)
Legs == {"left", "right"}

\* const time = i / frameRate, in milliseconds
TimeOf(i, rate) == (i * 1000) \div rate

\* duration bounds of createGaitCycle (0.8 s and 1.5 s), in milliseconds
MinCycleDuration == 800
MaxCycleDuration == 1500

\* a joint angle of frame i: a bounded, deterministic stand-in for the
\* recorded angle columns of GaitData
SampleAngle(leg, joint, i) ==
    LET k == (IF leg = "left" THEN 0 ELSE 5) + (IF joint = "hip" THEN 0 ELSE IF joint = "knee" THEN 3 ELSE 7)
    IN  (((i + k) * 37) % 41) * 10 - 200

\* a recording of n frames whose foot-contact flags are true exactly at the
\* frames of L (left) and R (right)
Recording(n, rate, L, R) ==
    [k \in 1..n |->
        [frame |-> k - 1,
         time |-> TimeOf(k - 1, rate),
         leftHip |-> SampleAngle("left", "hip", k - 1),
         rightHip |-> SampleAngle("right", "hip", k - 1),
         leftKnee |-> SampleAngle("left", "knee", k - 1),
         rightKnee |-> SampleAngle("right", "knee", k - 1),
         leftAnkle |-> SampleAngle("left", "ankle", k - 1),
         rightAnkle |-> SampleAngle("right", "ankle", k - 1),
         leftFootContact |-> (k - 1) \in L,
         rightFootContact |-> (k - 1) \in R]]

FootContact(d, leg, i) ==
    IF leg = "left" THEN d[i + 1].leftFootContact ELSE d[i + 1].rightFootContact

ICEvent(d, leg, i) == [frame |-> i, time |-> d[i + 1].time, type |-> "IC", leg |-> leg]

\* the events pushed at loop index i: left before right
EventsAtWrong(d, i) ==
    (IF FootContact(d, "left", i - 1) /\ ~FootContact(d, "left", i)
        THEN <<ICEvent(d, "left", i)>> ELSE <<>>)
    \o (IF FootContact(d, "right", i - 1) /\ ~FootContact(d, "right", i)
        THEN <<ICEvent(d, "right", i)>> ELSE <<>>)

EventsAt(d, i) ==
    (IF ~FootContact(d, "left", i - 1) /\ FootContact(d, "left", i)
        THEN <<ICEvent(d, "left", i)>> ELSE <<>>)
    \o (IF ~FootContact(d, "right", i - 1) /\ FootContact(d, "right", i)
        THEN <<ICEvent(d, "right", i)>> ELSE <<>>)

RECURSIVE ScanContacts(_, _)
ScanContacts(d, i) ==
    IF i >= Len(d) THEN <<>> ELSE EventsAt(d, i) \o ScanContacts(d, i + 1)

\* events.sort((a, b) => a.frame - b.frame): stable
RECURSIVE InsertByFrame(_, _)
InsertByFrame(s, e) ==
    IF s = <<>> THEN <<e>>
    ELSE IF e.frame < Head(s).frame THEN <<e>> \o s
    ELSE <<Head(s)>> \o InsertByFrame(Tail(s), e)

RECURSIVE SortByFrame(_)
SortByFrame(s) ==
    IF s = <<>> THEN <<>>
    ELSE InsertByFrame(SortByFrame(Slice(s, 0, Len(s) - 1)), s[Len(s)])

detectInitialContacts(d) == SortByFrame(ScanContacts(d, 1))

\* the duration test of createGaitCycle: TRUE when the candidate is rejected
DurationRejectedStrict(duration) ==
    duration <= MinCycleDuration \/ duration >= MaxCycleDuration

DurationRejected(duration) ==
    duration < MinCycleDuration \/ duration > MaxCycleDuration

LegAngle(d, leg, joint, i) ==
    IF leg = "left"
    THEN (IF joint = "hip" THEN d[i + 1].leftHip
          ELSE IF joint = "knee" THEN d[i + 1].leftKnee ELSE d[i + 1].leftAnkle)
    ELSE (IF joint = "hip" THEN d[i + 1].rightHip
          ELSE IF joint = "knee" THEN d[i + 1].rightKnee ELSE d[i + 1].rightAnkle)

\* null is the empty sequence, a cycle the one-element sequence
createGaitCycle(d, startEvent, endEvent, leg) ==
    LET startFrame == startEvent.frame
        endFrame == endEvent.frame
        duration == endEvent.time - startEvent.time
        last == Min2(endFrame, Len(d) - 1)
        count == IF last < startFrame THEN 0 ELSE last - startFrame + 1
        frames == [k \in 1..count |-> startFrame + k - 1]
    IN  IF DurationRejected(duration) THEN <<>>
        ELSE <<[leg |-> leg,
                startFrame |-> startFrame,
                endFrame |-> endFrame,
                startTime |-> startEvent.time,
                endTime |-> endEvent.time,
                duration |-> duration,
                frames |-> frames,
                hipAngles |-> [k \in 1..count |-> LegAngle(d, leg, "hip", frames[k])],
                kneeAngles |-> [k \in 1..count |-> LegAngle(d, leg, "knee", frames[k])],
                ankleAngles |-> [k \in 1..count |-> LegAngle(d, leg, "ankle", frames[k])]]>>

LegEvents(events, leg) == SelectSeq(events, LAMBDA e : e.leg = leg)

RECURSIVE PairCycles(_, _, _, _)
PairCycles(d, ics, leg, i) ==
    IF i > Len(ics) - 1 THEN <<>>
    ELSE createGaitCycle(d, ics[i], ics[i + 1], leg) \o PairCycles(d, ics, leg, i + 1)

extractGaitCycles(d, events) ==
    PairCycles(d, LegEvents(events, "left"), "left", 1)
    \o PairCycles(d, LegEvents(events, "right"), "right", 1)

(***************************************************************************)
(* Exact rationals, for the confidences.                                   *)
(***************************************************************************)
Rat(n, d) == [n |-> n, d |-> d]

RatGT(a, b) == a.n * b.d > b.n * a.d

RatMin(a, b) == IF RatGT(a, b) THEN b ELSE a

\* (a + b) / 2
RatMean(a, b) == Rat(a.n * b.d + b.n * a.d, 2 * a.d * b.d)

(***************************************************************************)
(* Hip: ROMCalculator                                                      *)
(***************************************************************************)
\* frameCount default of calculateAnatomicalZero
ZeroFrameCount == 15

\* windowSize of findPeaks
WindowSize == 3

calculateAnatomicalZero(angles) ==
    LET initialFrames == Slice(angles, 0, Min2(ZeroFrameCount, Len(angles)))
    IN  IF Len(initialFrames) = 0 THEN 0
        ELSE RoundDiv(SeqSum(initialFrames), Len(initialFrames))

AllLE(s, x) == \A k \in 1..Len(s) : s[k] <= x

AllGE(s, x) == \A k \in 1..Len(s) : s[k] >= x

\* i is a 0-based index with WindowSize <= i < Len(angles) - WindowSize
IsFlexionPeak(angles, zero, i) ==
    /\ angles[i + 1] > zero
    /\ AllLE(Slice(angles, i - WindowSize, i), angles[i + 1])
    /\ AllLE(Slice(angles, i + 1, i + WindowSize + 1), angles[i + 1])

IsExtensionPeak(angles, zero, i) ==
    /\ angles[i + 1] < zero
    /\ AllGE(Slice(angles, i - WindowSize, i), angles[i + 1])
    /\ AllGE(Slice(angles, i + 1, i + WindowSize + 1), angles[i + 1])

\* Math.min(avgDiff / 10, 1) with avgDiff in degrees: the two differences are
\* tenths of a degree, so the quotient is (beforeDiff + afterDiff) / 200
calculatePeakConfidence(angles, peakIndex) ==
    LET peak == angles[peakIndex + 1]
        before == Slice(angles, peakIndex - WindowSize, peakIndex)
        after == Slice(angles, peakIndex + 1, peakIndex + WindowSize + 1)
        beforeDiff == Abs(peak - SeqMax(before))
        afterDiff == Abs(peak - SeqMax(after))
    IN  Rat(Min2(beforeDiff + afterDiff, 200), 200)

RECURSIVE ScanPeaks(_, _, _)
ScanPeaks(angles, zero, i) ==
    IF i >= Len(angles) - WindowSize THEN <<>>
    ELSE (IF IsFlexionPeak(angles, zero, i)
             THEN <<[index |-> i, value |-> angles[i + 1], type |-> "flexion",
                     confidence |-> calculatePeakConfidence(angles, i)]>>
          ELSE IF IsExtensionPeak(angles, zero, i)
             THEN <<[index |-> i, value |-> angles[i + 1], type |-> "extension",
                     confidence |-> calculatePeakConfidence(angles, i)]>>
          ELSE <<>>)
         \o ScanPeaks(angles, zero, i + 1)

findPeaks(angles, zero) == ScanPeaks(angles, zero, WindowSize)

PeaksOfType(peaks, type) == SelectSeq(peaks, LAMBDA p : p.type = type)

PeakValues(peaks) == [k \in 1..Len(peaks) |-> peaks[k].value]

\* Math.floor(n * 0.95) and Math.floor(n * 0.05)
Index95(n) == (n * 95) \div 100

Index5(n) == (n * 5) \div 100

\* confidence of the percentile method
PercentileConfidenceLow == Rat(5, 10)

PercentileConfidence == Rat(7, 10)

calculatePercentileROMZeroRelative(angles, anatomicalZero) ==
    LET sorted == SortAsc(angles)
        percentile95 == sorted[Index95(Len(sorted)) + 1]
        percentile5 == sorted[Index5(Len(sorted)) + 1]
    IN  [anatomicalZero |-> anatomicalZero,
         maxFlexion |-> percentile95,
         maxExtension |-> percentile5,
         totalROM |-> Abs(percentile95 - anatomicalZero) + Abs(percentile5 - anatomicalZero),
         method |-> "percentile_fallback",
         confidence |-> PercentileConfidence]

calculatePercentileROM(angles, anatomicalZero) ==
    LET sorted == SortAsc(angles)
        percentile95 == sorted[Index95(Len(sorted)) + 1]
        percentile5 == sorted[Index5(Len(sorted)) + 1]
    IN  [anatomicalZero |-> anatomicalZero,
         maxFlexion |-> percentile95,
         maxExtension |-> percentile5,
         totalROM |-> percentile95 - percentile5,
         method |-> "percentile_fallback",
         confidence |-> PercentileConfidence]

\* mean of the peaks' confidences (all over 200), 0 without peaks
AvgPeakConfidence(peaks) ==
    IF Len(peaks) > 0
    THEN Rat(SeqSum([k \in 1..Len(peaks) |-> peaks[k].confidence.n]), 200 * Len(peaks))
    ELSE Rat(0, 1)

\* the test that selects peak detection
EnoughPeaksNoConfidence(flexionPeaks, extensionPeaks, avgConfidence) ==
    Len(flexionPeaks) >= 1 /\ Len(extensionPeaks) >= 1

EnoughPeaks(flexionPeaks, extensionPeaks, avgConfidence) ==
    Len(flexionPeaks) >= 1 /\ Len(extensionPeaks) >= 1 /\ RatGT(avgConfidence, Rat(3, 10))

calculatePeakROM(angles, anatomicalZero) ==
    LET peaks == findPeaks(angles, anatomicalZero)
        flexionPeaks == PeaksOfType(peaks, "flexion")
        extensionPeaks == PeaksOfType(peaks, "extension")
        avgConfidence == AvgPeakConfidence(peaks)
    IN  IF EnoughPeaks(flexionPeaks, extensionPeaks, avgConfidence)
        THEN LET maxFlexion == SeqMax(PeakValues(flexionPeaks))
                 maxExtension == SeqMin(PeakValues(extensionPeaks))
             IN  [anatomicalZero |-> anatomicalZero,
                  maxFlexion |-> maxFlexion,
                  maxExtension |-> maxExtension,
                  totalROM |-> maxFlexion - maxExtension,
                  method |-> "peak_detection",
                  confidence |-> RatMin(avgConfidence, Rat(95, 100))]
        ELSE calculatePercentileROM(angles, anatomicalZero)

\* the result for an empty angle array
EmptyLegROMWrong ==
    [anatomicalZero |-> 0, maxFlexion |-> 0, maxExtension |-> 0, totalROM |-> 0,
     method |-> "percentile_fallback", confidence |-> PercentileConfidence]

EmptyLegROM ==
    [anatomicalZero |-> 0, maxFlexion |-> 0, maxExtension |-> 0, totalROM |-> 0,
     method |-> "percentile_fallback", confidence |-> Rat(0, 1)]

calculateLegROM(angles) ==
    IF Len(angles) = 0 THEN EmptyLegROM
    ELSE calculatePeakROM(angles, calculateAnatomicalZero(angles))

\* the cutoff pairs of a quality bucket: confidence, and asymmetry in tenths
HipThresholdsStrict ==
    [excellent |-> [confidence |-> Rat(8, 10), asymmetry |-> 50],
     good |-> [confidence |-> Rat(75, 100), asymmetry |-> 100],
     fair |-> [confidence |-> Rat(4, 10), asymmetry |-> 150]]

HipThresholds ==
    [excellent |-> [confidence |-> Rat(8, 10), asymmetry |-> 50],
     good |-> [confidence |-> Rat(6, 10), asymmetry |-> 100],
     fair |-> [confidence |-> Rat(4, 10), asymmetry |-> 150]]

\* the if / else-if chain over the buckets
QualityBucketLoose(confidence, asymmetry, t) ==
    IF RatGT(confidence, t.fair.confidence) /\ asymmetry < t.fair.asymmetry THEN "fair"
    ELSE IF RatGT(confidence, t.good.confidence) /\ asymmetry < t.good.asymmetry THEN "good"
    ELSE IF RatGT(confidence, t.excellent.confidence) /\ asymmetry < t.excellent.asymmetry
        THEN "excellent"
    ELSE "poor"

QualityBucket(confidence, asymmetry, t) ==
    IF RatGT(confidence, t.excellent.confidence) /\ asymmetry < t.excellent.asymmetry
        THEN "excellent"
    ELSE IF RatGT(confidence, t.good.confidence) /\ asymmetry < t.good.asymmetry THEN "good"
    ELSE IF RatGT(confidence, t.fair.confidence) /\ asymmetry < t.fair.asymmetry THEN "fair"
    ELSE "poor"

\* Math.round(averageROM * 10) / 10 of (l + r) / 2, with l and r in tenths
AverageROMTruncated(l, r) == (l + r) \div 2

AverageROM(l, r) == RoundDiv(l + r, 2)

calculateBilateralROM(left, right) ==
    LET leftROM == calculateLegROM(left)
        rightROM == calculateLegROM(right)
        asymmetry == Abs(leftROM.totalROM - rightROM.totalROM)
        avgConfidence == RatMean(leftROM.confidence, rightROM.confidence)
    IN  [joint |-> "hip",
         left |-> leftROM,
         right |-> rightROM,
         asymmetry |-> asymmetry,
         averageROM |-> AverageROM(leftROM.totalROM, rightROM.totalROM),
         dataQuality |-> QualityBucket(avgConfidence, asymmetry, HipThresholds)]

\* the ROM-band rule: averageROM in tenths of a degree against 20 and 50 degrees
HipROMBandAdvisory(averageROM) ==
    IF averageROM < 200
    THEN <<"Hip ROM is below normal range. Consider mobility exercises.">>
    ELSE IF averageROM > 500
    THEN <<"Hip ROM is above normal range. Monitor for hypermobility.">>
    ELSE <<>>

\* the asymmetry rule: asymmetry in tenths of a degree against 10 and 5 degrees
HipAsymmetryAdvisory(asymmetry) ==
    IF asymmetry > 100
    THEN <<"Significant asymmetry detected. Focus on bilateral training.">>
    ELSE IF asymmetry > 50
    THEN <<"Moderate asymmetry present. Include unilateral exercises.">>
    ELSE <<>>

\* the data quality rule, shared wording of the hip and ankle calculators
DataQualityAdvisory(dataQuality) ==
    IF dataQuality = "poor"
    THEN <<"Data quality is poor. Consider re-recording with better conditions.">>
    ELSE <<>>

generateRecommendations(romAnalysis) ==
    HipROMBandAdvisory(romAnalysis.averageROM)
        \o HipAsymmetryAdvisory(romAnalysis.asymmetry)
        \o DataQualityAdvisory(romAnalysis.dataQuality)

\* the summary built from the analysis of the two series
ROMSummary(left, right, romAnalysis) ==
    [analysis |-> romAnalysis,
     details |->
        [left |-> [result |-> romAnalysis.left,
                   peaks |-> findPeaks(left, romAnalysis.left.anatomicalZero)],
         right |-> [result |-> romAnalysis.right,
                    peaks |-> findPeaks(right, romAnalysis.right.anatomicalZero)]],
     recommendations |-> generateRecommendations(romAnalysis)]

\* const analysis = this.calculateBilateralROM(leftAngles, rightAngles),
\* computed once
generateROMSummary(left, right) ==
    CHOOSE summary \in
        {ROMSummary(left, right, romAnalysis) :
            romAnalysis \in {calculateBilateralROM(left, right)}} : TRUE

(***************************************************************************)
(* Knee: KneeGraphGenerator                                                *)
(***************************************************************************)
Modes == {"walk", "run", "sprint"}

\* GAIT_MODE_PRESETS[mode].qualityThresholds: confidence, asymmetry in tenths
QualityThresholds(m) ==
    IF m = "walk"
    THEN [excellent |-> [confidence |-> Rat(80, 100), asymmetry |-> 50],
          good |-> [confidence |-> Rat(60, 100), asymmetry |-> 100],
          fair |-> [confidence |-> Rat(40, 100), asymmetry |-> 150],
          poor |-> [confidence |-> Rat(20, 100), asymmetry |-> 200]]
    ELSE IF m = "run"
    THEN [excellent |-> [confidence |-> Rat(85, 100), asymmetry |-> 80],
          good |-> [confidence |-> Rat(65, 100), asymmetry |-> 150],
          fair |-> [confidence |-> Rat(45, 100), asymmetry |-> 200],
          poor |-> [confidence |-> Rat(25, 100), asymmetry |-> 250]]
    ELSE [excellent |-> [confidence |-> Rat(90, 100), asymmetry |-> 100],
          good |-> [confidence |-> Rat(70, 100), asymmetry |-> 180],
          fair |-> [confidence |-> Rat(50, 100), asymmetry |-> 250],
          poor |-> [confidence |-> Rat(30, 100), asymmetry |-> 300]]

\* Math.min(15, angles.length) of the knee generator
KneeZeroFrameCount == 15

KneeCalculateAnatomicalZero(angles) ==
    LET initialFrames == Slice(angles, 0, Min2(KneeZeroFrameCount, Len(angles)))
    IN  IF Len(initialFrames) = 0 THEN 0
        ELSE RoundDiv(SeqSum(initialFrames), Len(initialFrames))

RECURSIVE KneeScanPeaks(_, _, _)
KneeScanPeaks(angles, zero, i) ==
    IF i >= Len(angles) - WindowSize THEN <<>>
    ELSE (IF IsFlexionPeak(angles, zero, i)
             THEN <<[value |-> angles[i + 1], type |-> "flexion"]>>
          ELSE IF IsExtensionPeak(angles, zero, i)
             THEN <<[value |-> angles[i + 1], type |-> "extension"]>>
          ELSE <<>>)
         \o KneeScanPeaks(angles, zero, i + 1)

KneeFindPeaks(angles, zero) == KneeScanPeaks(angles, zero, WindowSize)

\* sorted[index] || anatomicalZero: a missing element and the number 0 are
\* both falsy
ElementOr(sorted, index, anatomicalZero) ==
    IF index >= Len(sorted) THEN anatomicalZero
    ELSE IF sorted[index + 1] = 0 THEN anatomicalZero
    ELSE sorted[index + 1]

KneeCalculateROM(peaks, anatomicalZero) ==
    LET flexionPeaks == PeaksOfType(peaks, "flexion")
        extensionPeaks == PeaksOfType(peaks, "extension")
    IN  IF Len(flexionPeaks) > 0 /\ Len(extensionPeaks) > 0
        THEN LET maxFlexion == SeqMax(PeakValues(flexionPeaks))
                 maxExtension == SeqMin(PeakValues(extensionPeaks))
             IN  [maxFlexion |-> maxFlexion,
                  maxExtension |-> maxExtension,
                  totalROM |-> maxFlexion - maxExtension]
        ELSE LET sorted == SortAsc(PeakValues(peaks))
                 percentile95 == ElementOr(sorted, Index95(Len(sorted)), anatomicalZero)
                 percentile5 == ElementOr(sorted, Index5(Len(sorted)), anatomicalZero)
             IN  [maxFlexion |-> percentile95,
                  maxExtension |-> percentile5,
                  totalROM |-> percentile95 - percentile5]

KneeLegROM(angles) ==
    LET zero == KneeCalculateAnatomicalZero(angles)
        rom == KneeCalculateROM(KneeFindPeaks(angles, zero), zero)
    IN  [maxFlexion |-> rom.maxFlexion,
         maxExtension |-> rom.maxExtension,
         totalROM |-> rom.totalROM,
         anatomicalZero |-> zero]

KneeCalculateROMAnalysis(left, right) ==
    LET leftROM == KneeLegROM(left)
        rightROM == KneeLegROM(right)
    IN  [left |-> leftROM,
         right |-> rightROM,
         asymmetry |-> Abs(leftROM.totalROM - rightROM.totalROM),
         averageROM |-> AverageROM(leftROM.totalROM, rightROM.totalROM)]

\* a confidence above every mode's 'excellent' cutoff
KneeConfidenceHigh == Rat(95, 100)

\* const confidence = 0.85
KneeConfidence == Rat(85, 100)

KneeCalculateQualityMetrics(romAnalysis, m) ==
    [confidence |-> RoundDiv(100 * KneeConfidence.n, KneeConfidence.d),
     dataQuality |-> QualityBucket(KneeConfidence, romAnalysis.asymmetry, QualityThresholds(m))]

analyzeKneeData(left, right, m) ==
    LET romAnalysis == KneeCalculateROMAnalysis(left, right)
        qualityMetrics == KneeCalculateQualityMetrics(romAnalysis, m)
    IN  [joint |-> "knee",
         left |-> romAnalysis.left,
         right |-> romAnalysis.right,
         asymmetry |-> romAnalysis.asymmetry,
         averageROM |-> romAnalysis.averageROM,
         confidence |-> qualityMetrics.confidence,
         dataQuality |-> qualityMetrics.dataQuality]

(***************************************************************************)
(* Ankle: AnkleROMCalculator.  Its numbers may be NaN: <<v>> is the number *)
(* v, <<>> is NaN.                                                         *)
(***************************************************************************)
NaN == <<>>

Num(v) == <<v>>

IsNaN(x) == x = <<>>

AnyNaN(s) == \E k \in 1..Len(s) : IsNaN(s[k])

\* Math.max(...values) and Math.min(...values) of a non-empty list
MaxOf(values) ==
    IF AnyNaN(values) THEN NaN ELSE Num(SeqMax([k \in 1..Len(values) |-> values[k][1]]))

MinOf(values) ==
    IF AnyNaN(values) THEN NaN ELSE Num(SeqMin([k \in 1..Len(values) |-> values[k][1]]))

\* Math.min(20, Math.floor(angles.length * 0.1))
AnkleInitialFrames(n) == Min2(20, n \div 10)

\* the mean of no frames is 0 / 0
AnkleCalculateAnatomicalZero(angles) ==
    LET stanceFrames == Slice(angles, 0, AnkleInitialFrames(Len(angles)))
    IN  IF Len(stanceFrames) = 0 THEN NaN
        ELSE Num(RoundDiv(SeqSum(stanceFrames), Len(stanceFrames)))

\* comparisons with NaN are false
IsDorsiflexionPeak(angles, zero, i) ==
    /\ angles[i + 1] > angles[i]
    /\ angles[i + 1] > angles[i + 2]
    /\ ~IsNaN(zero)
    /\ angles[i + 1] > zero[1]

IsPlantarflexionPeak(angles, zero, i) ==
    /\ angles[i + 1] < angles[i]
    /\ angles[i + 1] < angles[i + 2]
    /\ ~IsNaN(zero)
    /\ angles[i + 1] < zero[1]

RECURSIVE AnkleScan(_, _, _, _)
AnkleScan(angles, zero, type, i) ==
    IF i >= Len(angles) - 1 THEN <<>>
    ELSE (IF (type = "dorsiflexion" /\ IsDorsiflexionPeak(angles, zero, i))
             \/ (type = "plantarflexion" /\ IsPlantarflexionPeak(angles, zero, i))
          THEN <<[value |-> Num(angles[i + 1]), type |-> type]>>
          ELSE <<>>)
         \o AnkleScan(angles, zero, type, i + 1)

\* an element of the sorted series, undefined (NaN once used) when missing
ElementAt(sorted, index) ==
    IF index >= Len(sorted) THEN NaN ELSE Num(sorted[index + 1])

findAnklePeaks(angles, zero) ==
    LET found == AnkleScan(angles, zero, "dorsiflexion", 1)
                 \o AnkleScan(angles, zero, "plantarflexion", 1)
        sortedAngles == SortAsc(angles)
    IN  IF Len(found) = 0
        THEN <<[value |-> ElementAt(sortedAngles, Index95(Len(sortedAngles))),
                type |-> "dorsiflexion"],
               [value |-> ElementAt(sortedAngles, Index5(Len(sortedAngles))),
                type |-> "plantarflexion"]>>
        ELSE found

\* Math.abs(a - b)
AbsDiff(a, b) == IF IsNaN(a) \/ IsNaN(b) THEN NaN ELSE Num(Abs(a[1] - b[1]))

\* a + b
Plus(a, b) == IF IsNaN(a) \/ IsNaN(b) THEN NaN ELSE Num(a[1] + b[1])

calculateAnkleROM(peaks, anatomicalZero) ==
    LET dorsiflexionPeaks == PeaksOfType(peaks, "dorsiflexion")
        plantarflexionPeaks == PeaksOfType(peaks, "plantarflexion")
        maxDorsiflexion ==
            IF Len(dorsiflexionPeaks) > 0 THEN MaxOf(PeakValues(dorsiflexionPeaks))
            ELSE anatomicalZero
        maxPlantarflexion ==
            IF Len(plantarflexionPeaks) > 0 THEN MinOf(PeakValues(plantarflexionPeaks))
            ELSE anatomicalZero
    IN  [maxDorsiflexion |-> maxDorsiflexion,
         maxPlantarflexion |-> maxPlantarflexion,
         totalROM |-> Plus(AbsDiff(maxDorsiflexion, anatomicalZero),
                           AbsDiff(maxPlantarflexion, anatomicalZero))]

AnkleLegROM(angles) ==
    LET zero == AnkleCalculateAnatomicalZero(angles)
        rom == calculateAnkleROM(findAnklePeaks(angles, zero), zero)
    IN  [maxDorsiflexion |-> rom.maxDorsiflexion,
         maxPlantarflexion |-> rom.maxPlantarflexion,
         totalROM |-> rom.totalROM,
         anatomicalZero |-> zero]

AnkleCalculateBilateralROM(left, right) ==
    LET leftROM == AnkleLegROM(left)
        rightROM == AnkleLegROM(right)
    IN  [left |-> leftROM,
         right |-> rightROM,
         asymmetry |-> AbsDiff(leftROM.totalROM, rightROM.totalROM),
         averageROM |->
            IF IsNaN(leftROM.totalROM) \/ IsNaN(rightROM.totalROM) THEN NaN
            ELSE Num(AverageROM(leftROM.totalROM[1], rightROM.totalROM[1]))]

\* Math.abs(maxDorsiflexion - maxPlantarflexion) / totalROM: 0 / 0 is NaN,
\* x / 0 is Infinity, written Rat(1, 0)
AnkleConsistency(leg) ==
    LET diff == AbsDiff(leg.maxDorsiflexion, leg.maxPlantarflexion)
    IN  IF IsNaN(diff) \/ IsNaN(leg.totalROM) THEN NaN
        ELSE IF leg.totalROM[1] = 0
             THEN (IF diff[1] = 0 THEN NaN ELSE Num(Rat(1, 0)))
        ELSE Num(Rat(diff[1], leg.totalROM[1]))

AnkleConfidence(romAnalysis) ==
    LET leftConsistency == AnkleConsistency(romAnalysis.left)
        rightConsistency == AnkleConsistency(romAnalysis.right)
    IN  IF IsNaN(leftConsistency) \/ IsNaN(rightConsistency) THEN NaN
        ELSE Num(RatMean(leftConsistency[1], rightConsistency[1]))

\* Math.round(confidence * 100) / 100, in hundredths; Infinity stays Infinity
RoundedConfidence(confidence) ==
    IF IsNaN(confidence) THEN NaN
    ELSE IF confidence[1].d = 0 THEN Num(Rat(1, 0))
    ELSE Num(RoundDiv(100 * confidence[1].n, confidence[1].d))

AnkleThresholds ==
    [excellent |-> [confidence |-> Rat(8, 10), asymmetry |-> 50],
     good |-> [confidence |-> Rat(6, 10), asymmetry |-> 100],
     fair |-> [confidence |-> Rat(4, 10), asymmetry |-> 150]]

\* x < k and x >= k of a value that may be NaN: both are false for NaN
NumLT(x, k) == ~IsNaN(x) /\ x[1] < k

NumGE(x, k) == ~IsNaN(x) /\ x[1] >= k

AnkleROMBandAdvisory(averageROM) ==
    IF NumLT(averageROM, 200)
    THEN <<"Ankle ROM is below normal range. Consider mobility exercises.">>
    ELSE <<>>

AnkleAsymmetryAdvisory(asymmetry) ==
    IF NumGE(asymmetry, 100)
    THEN <<"Significant ankle asymmetry detected. Focus on bilateral training.">>
    ELSE IF NumGE(asymmetry, 50)
    THEN <<"Moderate ankle asymmetry detected. Include unilateral exercises.">>
    ELSE <<>>

\* every comparison with a NaN confidence or asymmetry is false
AnkleCalculateQualityMetrics(romAnalysis) ==
    LET confidence == AnkleConfidence(romAnalysis)
        dataQuality ==
            IF IsNaN(confidence) \/ IsNaN(romAnalysis.asymmetry) THEN "poor"
            ELSE QualityBucket(confidence[1], romAnalysis.asymmetry[1], AnkleThresholds)
    IN  [confidence |-> RoundedConfidence(confidence),
         dataQuality |-> dataQuality,
         recommendations |->
            AnkleROMBandAdvisory(romAnalysis.averageROM)
                \o AnkleAsymmetryAdvisory(romAnalysis.asymmetry)
                \o DataQualityAdvisory(dataQuality)]

analyzeAnkleData(left, right) ==
    LET romAnalysis == AnkleCalculateBilateralROM(left, right)
        qualityMetrics == AnkleCalculateQualityMetrics(romAnalysis)
    IN  [joint |-> "ankle",
         left |-> romAnalysis.left,
         right |-> romAnalysis.right,
         asymmetry |-> romAnalysis.asymmetry,
         averageROM |-> romAnalysis.averageROM,
         confidence |-> qualityMetrics.confidence,
         dataQuality |-> qualityMetrics.dataQuality,
         recommendations |-> qualityMetrics.recommendations]

(***************************************************************************)
(* Normalisation and averaging: gaitCycleDetection.ts.  The entries of a   *)
(* normalized or averaged series may be NaN, so they are <<v>> or <<>>.    *)
(***************************************************************************)
\* pointsCount default of normalizeGaitCycles and of calculateAverageAngles
DefaultPointsCount == 101

\* an angle array as an array of numbers that may be NaN
Values(angles) == [k \in 1..Len(angles) |-> Num(angles[k])]

\* data[index]: undefined, which arithmetic turns into NaN, outside the array
SampleAt(d, index) ==
    IF index >= 0 /\ index < Len(d) THEN d[index + 1] ELSE NaN

\* new Array(targetPoints).fill(data[0])
BroadcastShort(v, targetPoints) == [i \in 1..(targetPoints - 1) |-> v]

Broadcast(v, targetPoints) == [i \in 1..targetPoints |-> v]

\* data.length - 1, the numerator of step
LastIndexOff(d) == Len(d)

LastIndex(d) == Len(d) - 1

\* Math.round((lower * (1 - weight) + upper * weight) * 10) / 10 for
\* weight = rem / den
Interpolate(lower, upper, rem, den) ==
    IF IsNaN(lower) \/ IsNaN(upper) THEN NaN
    ELSE Num(RoundDiv(lower[1] * (den - rem) + upper[1] * rem, den))

\* the value pushed at loop index i; index = i * step is the exact quotient
\* i * (data.length - 1) / (targetPoints - 1).  For targetPoints = 1 step is
\* Infinity, index = 0 * Infinity is NaN, and the else branch pushes NaN.
ResamplePoint(d, targetPoints, i) ==
    IF targetPoints = 1 THEN NaN
    ELSE LET num == i * LastIndex(d)
             den == targetPoints - 1
             lowerIndex == num \div den
             rem == num % den
         IN  IF rem = 0 THEN SampleAt(d, lowerIndex)
             ELSE Interpolate(SampleAt(d, lowerIndex), SampleAt(d, lowerIndex + 1), rem, den)

resampleData(d, targetPoints) ==
    IF Len(d) = 0 THEN <<>>
    ELSE IF Len(d) = 1 THEN Broadcast(d[1], targetPoints)
    ELSE [k \in 1..targetPoints |-> ResamplePoint(d, targetPoints, k - 1)]

NormalizeCycle(cycle, points) ==
    [leg |-> cycle.leg,
     normalizedHip |-> resampleData(Values(cycle.hipAngles), points),
     normalizedKnee |-> resampleData(Values(cycle.kneeAngles), points),
     normalizedAnkle |-> resampleData(Values(cycle.ankleAngles), points)]

normalizeGaitCycles(cs, points) ==
    [k \in 1..Len(cs) |-> NormalizeCycle(cs[k], points)]

Joints == {"hip", "knee", "ankle"}

NormalizedOf(c, joint) ==
    IF joint = "hip" THEN c.normalizedHip
    ELSE IF joint = "knee" THEN c.normalizedKnee ELSE c.normalizedAnkle

LegCyclesOf(normalized, leg) == SelectSeq(normalized, LAMBDA c : c.leg = leg)

\* leftCycles[0]?.normalizedHip.length || 101
AveragePointsCount(leftCycles) ==
    IF leftCycles # <<>> /\ Len(leftCycles[1].normalizedHip) # 0
    THEN Len(leftCycles[1].normalizedHip)
    ELSE DefaultPointsCount

\* cs.reduce((sum, cycle) => sum + cycle.normalized<Joint>[i], 0)
RECURSIVE SumAt(_, _, _)
SumAt(cs, joint, i) ==
    IF cs = <<>> THEN Num(0)
    ELSE Plus(SumAt(Slice(cs, 0, Len(cs) - 1), joint, i),
              SampleAt(NormalizedOf(cs[Len(cs)], joint), i))

\* Math.round((sum / count) * 10) / 10
RoundedMean(sum, count) ==
    IF IsNaN(sum) THEN NaN ELSE Num(RoundDiv(sum[1], count))

\* one of the six result arrays: zeros, overwritten by the means when the leg
\* has cycles, then rounded
AverageSeries(cs, joint, points) ==
    IF Len(cs) > 0
    THEN [k \in 1..points |-> RoundedMean(SumAt(cs, joint, k - 1), Len(cs))]
    ELSE [k \in 1..points |-> Num(0)]

calculateAverageAngles(normalized) ==
    LET leftCycles == LegCyclesOf(normalized, "left")
        rightCycles == LegCyclesOf(normalized, "right")
        points == AveragePointsCount(leftCycles)
    IN  [leftHip |-> AverageSeries(leftCycles, "hip", points),
         rightHip |-> AverageSeries(rightCycles, "hip", points),
         leftKnee |-> AverageSeries(leftCycles, "knee", points),
         rightKnee |-> AverageSeries(rightCycles, "knee", points),
         leftAnkle |-> AverageSeries(leftCycles, "ankle", points),
         rightAnkle |-> AverageSeries(rightCycles, "ankle", points)]

(***************************************************************************)
(* Gait phase detector: gaitPhaseDetection.ts.  Percents are whole         *)
(* numbers; null is the empty sequence, a phase the one-element sequence.  *)
(***************************************************************************)
Phase(name, abbreviation, startPercent, endPercent) ==
    [name |-> name, abbreviation |-> abbreviation,
     startPercent |-> startPercent, endPercent |-> endPercent]

StandardPhasesWithGap ==
    <<Phase("Initial Contact", "IC", 0, 2),
      Phase("Loading Response", "LR", 2, 12),
      Phase("Mid Stance", "MSt", 13, 31),
      Phase("Terminal Stance", "TSt", 31, 50),
      Phase("Pre-Swing", "PSw", 50, 62),
      Phase("Initial Swing", "ISw", 62, 75),
      Phase("Mid Swing", "MSw", 75, 87),
      Phase("Terminal Swing", "TSw", 87, 100)>>

STANDARD_PHASES ==
    <<Phase("Initial Contact", "IC", 0, 2),
      Phase("Loading Response", "LR", 2, 12),
      Phase("Mid Stance", "MSt", 12, 31),
      Phase("Terminal Stance", "TSt", 31, 50),
      Phase("Pre-Swing", "PSw", 50, 62),
      Phase("Initial Swing", "ISw", 62, 75),
      Phase("Mid Swing", "MSw", 75, 87),
      Phase("Terminal Swing", "TSw", 87, 100)>>

\* percent >= phase.startPercent && percent <= phase.endPercent
PhaseMatches(ph, p) == p >= ph.startPercent /\ p <= ph.endPercent

\* Array.find: the first matching element, undefined when there is none
RECURSIVE FindPhase(_, _, _)
FindPhase(phases, p, i) ==
    IF i > Len(phases) THEN <<>>
    ELSE IF PhaseMatches(phases[i], p) THEN <<phases[i]>>
    ELSE FindPhase(phases, p, i + 1)

getPhaseAtPercent(p) == FindPhase(STANDARD_PHASES, p, 1)

(***************************************************************************)
(* Phase tags of the graph generators                                      *)
(***************************************************************************)
\* boundaries that step back at PSw
PhaseBoundariesUnordered(m) ==
    [IC |-> 0, LR |-> 12, MSt |-> 31, TSt |-> 50,
     PSw |-> 45, ISw |-> 75, MSw |-> 87, TSw |-> 100]

\* GAIT_MODE_PRESETS[m].phaseBoundaries, in percent of the cycle
PhaseBoundaries(m) ==
    IF m = "walk"
    THEN [IC |-> 0, LR |-> 12, MSt |-> 31, TSt |-> 50,
          PSw |-> 62, ISw |-> 75, MSw |-> 87, TSw |-> 100]
    ELSE IF m = "run"
    THEN [IC |-> 0, LR |-> 10, MSt |-> 25, TSt |-> 45,
          PSw |-> 55, ISw |-> 70, MSw |-> 85, TSw |-> 100]
    ELSE [IC |-> 0, LR |-> 8, MSt |-> 20, TSt |-> 40,
          PSw |-> 50, ISw |-> 65, MSw |-> 80, TSw |-> 100]

\* KneeGraphGenerator.getPhaseAtPosition, p = cyclePosition * 100
KneeGetPhaseAtPosition(p, m) ==
    LET boundaries == PhaseBoundaries(m)
    IN  IF p < boundaries.LR THEN "IC"
        ELSE IF p < boundaries.MSt THEN "LR"
        ELSE IF p < boundaries.TSt THEN "MSt"
        ELSE IF p < boundaries.PSw THEN "TSt"
        ELSE IF p < boundaries.ISw THEN "PSw"
        ELSE IF p < boundaries.MSw THEN "ISw"
        ELSE IF p < boundaries.TSw THEN "MSw"
        ELSE "TSw"

\* AnkleGraphGenerator.getPhaseAtPosition, p = cyclePosition * 100: the
\* literals 0.02 .. 0.87 in percent
AnkleGetPhaseAtPosition(p) ==
    IF p <= 2 THEN "IC"
    ELSE IF p <= 12 THEN "LR"
    ELSE IF p <= 31 THEN "MSt"
    ELSE IF p <= 50 THEN "TSt"
    ELSE IF p <= 62 THEN "PSw"
    ELSE IF p <= 73 THEN "ISw"
    ELSE IF p <= 87 THEN "MSw"
    ELSE "TSw"

\* one transition per phase but the last, at the phase's end
detectPhaseTransitions(cycleLength) ==
    [k \in 1..(Len(STANDARD_PHASES) - 1) |->
        [phase |-> STANDARD_PHASES[k + 1].abbreviation,
         percent |-> STANDARD_PHASES[k].endPercent,
         frame |-> RoundDiv(STANDARD_PHASES[k].endPercent * (cycleLength - 1), 100),
         detected |-> TRUE]]

MinDuration == 5
MaxDuration == 40

\* the two constraints applied to a transition after its predecessor
ConstrainMinOnly(previous, p) ==
    IF p - previous < MinDuration THEN previous + MinDuration ELSE p

Constrain(previous, p) ==
    LET q == IF p - previous < MinDuration THEN previous + MinDuration ELSE p
    IN  IF q - previous > MaxDuration THEN previous + MaxDuration ELSE q

\* [...transitions].sort((a, b) => a.percent - b.percent), as the stable
\* order of the indices of the transition objects
RECURSIVE InsertByPercent(_, _, _)
InsertByPercent(ts, order, k) ==
    IF order = <<>> THEN <<k>>
    ELSE IF ts[k].percent < ts[Head(order)].percent THEN <<k>> \o order
    ELSE <<Head(order)>> \o InsertByPercent(ts, Tail(order), k)

RECURSIVE SortedOrder(_, _)
SortedOrder(ts, n) ==
    IF n = 0 THEN <<>> ELSE InsertByPercent(ts, SortedOrder(ts, n - 1), n)

\* the percent of the k-th object of the sorted copy after the forEach, which
\* reads the already adjusted percent of its predecessor
RECURSIVE ConstrainedPercent(_, _, _)
ConstrainedPercent(ts, order, k) ==
    IF k = 1 THEN ts[order[1]].percent
    ELSE Constrain(ConstrainedPercent(ts, order, k - 1), ts[order[k]].percent)

validateTransitions(ts) ==
    LET order == SortedOrder(ts, Len(ts))
    IN  [k \in 1..Len(ts) |->
            [ts[order[k]] EXCEPT !.percent = ConstrainedPercent(ts, order, k)]]

\* the caller's array after the call: its objects are the ones the sorted copy
\* holds, so their percents were adjusted in place
MutatedTransitions(ts) ==
    LET order == SortedOrder(ts, Len(ts))
        v == validateTransitions(ts)
    IN  [j \in 1..Len(ts) |-> v[CHOOSE k \in 1..Len(ts) : order[k] = j]]

(***************************************************************************)
(* Inputs of the gait cycle detector.                                      *)
(***************************************************************************)
\* frame rates of the explored recordings (const time = i / frameRate)
RecordingFrameRates == {10}

\* frameRate default of generateRealisticGaitData, the rate of the event lists
\* handed to extractGaitCycles by a caller
FrameRate == 100

RecordingLengths == {0, 1, 2, MaxFrames}

ContactSets(n) == {S \in SUBSET (0..(n - 1)) : Cardinality(S) <= MaxContacts}

\* the right leg's contact frames, given the left leg's
RightContactSets(L, n) ==
    {L, {}, {f + 1 : f \in L} \cap (0..(n - 1)), {f \in 0..(n - 1) : f % 9 = 3}}

\* frames of IC events handed to extractGaitCycles by a caller
SuppliedFrames == {0, 50, 110, 190, 340, 491}

RECURSIVE FramesAsc(_)
FramesAsc(S) ==
    IF S = {} THEN <<>>
    ELSE LET m == CHOOSE x \in S : \A y \in S : x <= y
         IN  <<m>> \o FramesAsc(S \ {m})

SuppliedEvents(L, R, rate) ==
    LET ev(leg, f) == [frame |-> f, time |-> TimeOf(f, rate), type |-> "IC", leg |-> leg]
        lf == FramesAsc(L)
        rf == FramesAsc(R)
    IN  SortByFrame([k \in 1..Len(lf) |-> ev("left", lf[k])]
                    \o [k \in 1..Len(rf) |-> ev("right", rf[k])])

NoAnalysis == [joint |-> "none"]

\* nothing normalized or averaged yet
NormIdle ==
    /\ pointsCount = DefaultPointsCount
    /\ normalizedCycles = <<>>
    /\ averages = <<>>

\* the phase detector not called yet
PhaseIdle ==
    /\ percent = 0
    /\ phase = <<>>
    /\ transitions = <<>>
    /\ validated = <<>>

\* nothing exported yet
ExportIdle ==
    /\ dataPoints = <<>>
    /\ csvContent = <<>>

\* useState initial values: no analysis started; null is the empty sequence
HookIdle ==
    /\ status = "idle"
    /\ progress = 0
    /\ error = <<>>
    /\ currentVideo = <<>>
    /\ analysisHistory = <<>>
    /\ calls = <<>>
    /\ lastCall = "none"

InitCycle ==
    /\ \/ /\ stage = "data"
          /\ frameRate \in RecordingFrameRates
          /\ \E n \in RecordingLengths : \E L \in ContactSets(n) :
                \E R \in RightContactSets(L, n) :
                    data = Recording(n, frameRate, L, R)
          /\ icEvents = <<>>
       \/ /\ stage = "events"
          /\ frameRate = FrameRate
          /\ \E n \in {0, 120} : data = Recording(n, FrameRate, {}, {})
          /\ \E L \in SUBSET SuppliedFrames :
                \E R \in {{}, L, {0, 110}, {50, 340}} :
                    icEvents = SuppliedEvents(L, R, FrameRate)
    /\ cycles = <<>>
    /\ leftAngles = <<>>
    /\ rightAngles = <<>>
    /\ mode = "walk"
    /\ analysis = NoAnalysis
    /\ NormIdle
    /\ PhaseIdle
    /\ ExportIdle
    /\ HookIdle

DetectInitialContacts ==
    /\ stage = "data"
    /\ icEvents' = detectInitialContacts(data)
    /\ stage' = "events"
    /\ UNCHANGED <<frameRate, data, cycles>>
    /\ UNCHANGED <<romVars, normVars, phaseVars, exportVars, hookVars>>

ExtractGaitCycles ==
    /\ stage = "events"
    /\ cycles' = extractGaitCycles(data, icEvents)
    /\ stage' = "cycles"
    /\ UNCHANGED <<frameRate, data, icEvents>>
    /\ UNCHANGED <<romVars, normVars, phaseVars, exportVars, hookVars>>

NextCycle == DetectInitialContacts \/ ExtractGaitCycles

SpecCycle == InitCycle /\ [][NextCycle]_vars

(***************************************************************************)
(* C2: detectInitialContacts emits exactly one IC event for every leg and  *)
(* frame i >= 1 whose contact flag is false at i-1 and true at i, emits no *)
(* other event, and returns the events in non-decreasing frame order.      *)
(* Checked on the events of a recording right after detection.             *)
(***************************************************************************)
Detected == stage = "events" /\ frameRate \in RecordingFrameRates

IsTransition(leg, i) ==
    /\ i >= 1
    /\ i < Len(data)
    /\ ~FootContact(data, leg, i - 1)
    /\ FootContact(data, leg, i)

EventCount(leg, i) ==
    Cardinality({k \in 1..Len(icEvents) : icEvents[k].leg = leg /\ icEvents[k].frame = i})

C2_DetectInitialContacts ==
    Detected =>
        /\ \A leg \in Legs : \A i \in 0..Len(data) :
              EventCount(leg, i) = (IF IsTransition(leg, i) THEN 1 ELSE 0)
        /\ \A k \in 1..Len(icEvents) :
              /\ icEvents[k].type = "IC"
              /\ icEvents[k].leg \in Legs
              /\ icEvents[k].frame \in 1..(Len(data) - 1)
              /\ icEvents[k].time = data[icEvents[k].frame + 1].time
        /\ \A k \in 1..(Len(icEvents) - 1) : icEvents[k].frame <= icEvents[k + 1].frame

\* both legs have a transition, one of them at a frame shared by both legs,
\* and a flag that stays true produced no event
C2_Witness ==
    /\ Detected
    /\ \E i \in 1..(Len(data) - 1) : IsTransition("left", i) /\ IsTransition("right", i)
    /\ \E i \in 1..(Len(data) - 1) :
          FootContact(data, "left", i - 1) /\ FootContact(data, "left", i)
    /\ Len(icEvents) >= 3

(***************************************************************************)
(* C1: extractGaitCycles returns, for each leg, exactly the cycles formed  *)
(* by pairing consecutive same-leg IC events whose time span lies in       *)
(* [0.8 s, 1.5 s] inclusive: each such pair yields one cycle, in order,    *)
(* every other pair is dropped, and no returned cycle has a duration       *)
(* outside the bounds.                                                     *)
(***************************************************************************)
Extracted == stage = "cycles"

InBounds(duration) == duration >= 800 /\ duration <= 1500

\* the indices j of the leg's events whose pair (j, j+1) is in bounds
AcceptedPairs(leg) ==
    LET ics == LegEvents(icEvents, leg)
    IN  {j \in 1..(Len(ics) - 1) : InBounds(ics[j + 1].time - ics[j].time)}

LegCycles(leg) == SelectSeq(cycles, LAMBDA c : c.leg = leg)

Angles == {-100, -10, 0, 55, 100}

Bases == {-10, 0}

Spiked(n, b, i, v, j, w) ==
    [k \in 1..n |-> IF k = j THEN w ELSE IF k = i THEN v ELSE b]

\* 101 points flat at 0 with 70 degrees at index 75 and -5 degrees at index 95
ScenarioPeakSeries == Spiked(101, 0, 76, 700, 96, -50)

\* 101 points flat at 0
ScenarioFlatSeries == Spiked(101, 0, 1, 0, 1, 0)

\* a strong flexion peak next to a strong extension peak
StrongSeries == <<0, 0, 0, 100, -100, 0, 0, 0>>

\* long series that leave the base in their first sample and in two samples
\* past the frames of the anatomical zero
OnsetSeries ==
    {[k \in 1..LongLen |->
        IF k = 1 THEN v ELSE IF k \in {LongLen - 3, LongLen - 2} THEN w ELSE b] :
        b \in Bases, v \in Angles, w \in Angles}

SeriesSet ==
    {Spiked(n, b, i, v, j, w) :
        n \in 0..MaxLen, b \in Bases, i \in 1..MaxLen, v \in Angles,
        j \in 1..MaxLen, w \in Angles}
    \cup {ScenarioPeakSeries, ScenarioFlatSeries}
    \cup OnsetSeries

Reverse(s) == [k \in 1..Len(s) |-> s[Len(s) + 1 - k]]

\* the right leg's series, given the left leg's
RightSeriesSet(left) ==
    {left, <<>>, [k \in 1..Len(left) |-> 0], StrongSeries, Reverse(left)}

InitROM ==
    /\ stage = "series"
    /\ leftAngles \in SeriesSet
    /\ rightAngles \in RightSeriesSet(leftAngles)
    /\ mode = "walk"
    /\ analysis = NoAnalysis
    /\ frameRate = FrameRate
    /\ data = <<>>
    /\ icEvents = <<>>
    /\ cycles = <<>>
    /\ NormIdle
    /\ PhaseIdle
    /\ ExportIdle
    /\ HookIdle

\* ROMCalculator.calculateBilateralROM(leftAngles, rightAngles)
HipBilateralROM ==
    /\ stage = "series"
    /\ analysis' = calculateBilateralROM(leftAngles, rightAngles)
    /\ stage' = "analysis"
    /\ UNCHANGED <<leftAngles, rightAngles, mode>>
    /\ UNCHANGED <<cycleVars, normVars, phaseVars, exportVars, hookVars>>

\* new KneeGraphGenerator(m).analyzeKneeData(dataPoints)
AnalyzeKneeData ==
    /\ stage = "series"
    /\ \E m \in Modes :
          /\ mode' = m
          /\ analysis' = analyzeKneeData(leftAngles, rightAngles, m)
    /\ stage' = "analysis"
    /\ UNCHANGED <<leftAngles, rightAngles>>
    /\ UNCHANGED <<cycleVars, normVars, phaseVars, exportVars, hookVars>>

\* AnkleGraphGenerator.analyzeAnkleData(dataPoints)
AnalyzeAnkleData ==
    /\ stage = "series"
    /\ analysis' = analyzeAnkleData(leftAngles, rightAngles)
    /\ stage' = "analysis"
    /\ UNCHANGED <<leftAngles, rightAngles, mode>>
    /\ UNCHANGED <<cycleVars, normVars, phaseVars, exportVars, hookVars>>

\* ROMCalculator.generateROMSummary(leftAngles, rightAngles)
GenerateROMSummary ==
    /\ stage = "series"
    /\ analysis' = generateROMSummary(leftAngles, rightAngles)
    /\ stage' = "summary"
    /\ UNCHANGED <<leftAngles, rightAngles, mode>>
    /\ UNCHANGED <<cycleVars, normVars, phaseVars, exportVars, hookVars>>

NextROM == HipBilateralROM \/ AnalyzeKneeData \/ AnalyzeAnkleData

SpecROM == InitROM /\ [][NextROM]_vars

\* the advisories are explored on the short series
MaxSummaryLen == 4

SummarySeriesSet ==
    {Spiked(n, b, i, v, j, w) :
        n \in 0..MaxSummaryLen, b \in Bases, i \in 1..MaxSummaryLen, v \in Angles,
        j \in 1..MaxSummaryLen, w \in Angles}

InitSummary ==
    /\ stage = "series"
    /\ leftAngles \in SummarySeriesSet
    /\ rightAngles \in RightSeriesSet(leftAngles)
    /\ mode = "walk"
    /\ analysis = NoAnalysis
    /\ frameRate = FrameRate
    /\ data = <<>>
    /\ icEvents = <<>>
    /\ cycles = <<>>
    /\ NormIdle
    /\ PhaseIdle
    /\ ExportIdle
    /\ HookIdle

NextSummary == GenerateROMSummary \/ AnalyzeAnkleData

SpecSummary == InitSummary /\ [][NextSummary]_vars

(***************************************************************************)
(* Normalisation and averaging of the cycles extracted from a caller's     *)
(* event list: normalizeGaitCycles, then calculateAverageAngles.           *)
(***************************************************************************)
\* largest explored pointsCount below the default
MaxPoints == 5

PointsCounts == (1..MaxPoints) \cup {DefaultPointsCount}

\* lengths of the recording the supplied events refer to: the cycle from
\* frame 110 to frame 190 has 0, 1, 3 or 81 samples
SuppliedDataLengths == {0, 111, 113, 200}

InitNormalize ==
    /\ stage = "cycles"
    /\ frameRate = FrameRate
    /\ \E n \in SuppliedDataLengths : data = Recording(n, FrameRate, {}, {})
    /\ \E L \in SUBSET SuppliedFrames :
          \E R \in {{}, L, {0, 110}, {50, 340}} :
              icEvents = SuppliedEvents(L, R, FrameRate)
    /\ cycles = extractGaitCycles(data, icEvents)
    /\ leftAngles = <<>>
    /\ rightAngles = <<>>
    /\ mode = "walk"
    /\ analysis = NoAnalysis
    /\ NormIdle
    /\ PhaseIdle
    /\ ExportIdle
    /\ HookIdle

\* GaitCycleDetector.normalizeGaitCycles(cycles, points)
NormalizeGaitCycles ==
    /\ stage = "cycles"
    /\ \E points \in PointsCounts :
          /\ pointsCount' = points
          /\ normalizedCycles' = normalizeGaitCycles(cycles, points)
    /\ stage' = "normalized"
    /\ UNCHANGED averages
    /\ UNCHANGED <<cycleVars, romVars, phaseVars, exportVars, hookVars>>

\* GaitCycleDetector.calculateAverageAngles(normalizedCycles)
CalculateAverageAngles ==
    /\ stage = "normalized"
    /\ averages' = calculateAverageAngles(normalizedCycles)
    /\ stage' = "averaged"
    /\ UNCHANGED <<pointsCount, normalizedCycles>>
    /\ UNCHANGED <<cycleVars, romVars, phaseVars, exportVars, hookVars>>

NextNormalize == NormalizeGaitCycles \/ CalculateAverageAngles

SpecNormalize == InitNormalize /\ [][NextNormalize]_vars

(***************************************************************************)
(* Inputs of the gait phase detector.                                      *)
(***************************************************************************)
\* largest explored number of transitions in a caller's list
MaxTransitions == 3

Percents == (0 - 5)..105

TransitionPercents == {0, 3, 5, 12, 50, 100}

\* the transitions of a caller's list, all detected, at the given percents
TransitionList(ps) ==
    [k \in 1..Len(ps) |->
        [phase |-> STANDARD_PHASES[k + 1].abbreviation,
         percent |-> ps[k],
         frame |-> ps[k],
         detected |-> TRUE]]

TransitionLists ==
    {TransitionList(ps) :
        ps \in UNION {[1..n -> TransitionPercents] : n \in 0..MaxTransitions}}
    \cup {detectPhaseTransitions(DefaultPointsCount)}

InitPhase ==
    /\ \/ /\ stage = "percent"
          /\ percent \in Percents
          /\ transitions = <<>>
       \/ /\ stage = "transitions"
          /\ percent = 0
          /\ transitions \in TransitionLists
    /\ phase = <<>>
    /\ validated = <<>>
    /\ frameRate = FrameRate
    /\ data = <<>>
    /\ icEvents = <<>>
    /\ cycles = <<>>
    /\ leftAngles = <<>>
    /\ rightAngles = <<>>
    /\ mode = "walk"
    /\ analysis = NoAnalysis
    /\ NormIdle
    /\ ExportIdle
    /\ HookIdle

\* GaitPhaseDetector.getPhaseAtPercent(percent)
GetPhaseAtPercent ==
    /\ stage = "percent"
    /\ phase' = getPhaseAtPercent(percent)
    /\ stage' = "phase"
    /\ UNCHANGED <<percent, transitions, validated>>
    /\ UNCHANGED <<cycleVars, romVars, normVars, exportVars, hookVars>>

\* GaitPhaseDetector.validateTransitions(transitions)
ValidateTransitions ==
    /\ stage = "transitions"
    /\ validated' = validateTransitions(transitions)
    /\ transitions' = MutatedTransitions(transitions)
    /\ stage' = "validated"
    /\ UNCHANGED <<percent, phase>>
    /\ UNCHANGED <<cycleVars, romVars, normVars, exportVars, hookVars>>

\* new KneeGraphGenerator(m), getPhaseAtPosition(percent / 100)
KneePhaseAtPosition ==
    /\ stage = "percent"
    /\ \E m \in Modes :
          /\ mode' = m
          /\ phase' = <<KneeGetPhaseAtPosition(percent, m)>>
    /\ stage' = "kneePhase"
    /\ UNCHANGED <<percent, transitions, validated>>
    /\ UNCHANGED <<leftAngles, rightAngles, analysis>>
    /\ UNCHANGED <<cycleVars, normVars, exportVars, hookVars>>

\* AnkleGraphGenerator getPhaseAtPosition(percent / 100)
AnklePhaseAtPosition ==
    /\ stage = "percent"
    /\ phase' = <<AnkleGetPhaseAtPosition(percent)>>
    /\ stage' = "anklePhase"
    /\ UNCHANGED <<percent, transitions, validated>>
    /\ UNCHANGED <<cycleVars, romVars, normVars, exportVars, hookVars>>

\* GaitPhaseDetector.validateTransitions(transitions), called once more with
\* the array the caller still holds
RevalidateTransitions ==
    /\ stage = "validated"
    /\ validated' = validateTransitions(transitions)
    /\ transitions' = MutatedTransitions(transitions)
    /\ stage' = "revalidated"
    /\ UNCHANGED <<percent, phase>>
    /\ UNCHANGED <<cycleVars, romVars, normVars, exportVars, hookVars>>

NextPhase ==
    \/ GetPhaseAtPercent
    \/ KneePhaseAtPosition
    \/ AnklePhaseAtPosition
    \/ ValidateTransitions
    \/ RevalidateTransitions

SpecPhase == InitPhase /\ [][NextPhase]_vars

(***************************************************************************)
(* Knee CSV export: KneeGraphGenerator.generateCSVData.  The text is a     *)
(* sequence of tokens: cells, and the separators written by join.          *)
(***************************************************************************)
Comma == [kind |-> ","]

Newline == [kind |-> "\n"]

\* a string written as it is
TextCell(s) == [kind |-> "text", text |-> s]

\* String(v / scale): the shortest decimal, without trailing zeros
RECURSIVE NumberCell(_, _)
NumberCell(v, scale) ==
    IF scale > 1 /\ v % 10 = 0 THEN NumberCell(v \div 10, scale \div 10)
    ELSE [kind |-> "number", value |-> v, scale |-> scale]

headers ==
    <<"GaitCyclePercent", "Phase", "Time(s)", "KneeLeft(deg)", "KneeRight(deg)", "GaitMode">>

\* a row with the two knee columns exchanged
CsvRowSwapped(point, m) ==
    <<NumberCell(RoundDiv(point.gaitCyclePercent, 10), 10),
      TextCell(point.phase),
      NumberCell(RoundDiv(point.time, 10), 100),
      NumberCell(point.kneeRight, 10),
      NumberCell(point.kneeLeft, 10),
      TextCell(m)>>

\* the map callback of rows: gaitCyclePercent in hundredths of a percent,
\* time in ms, angles in tenths of a degree
CsvRow(point, m) ==
    <<NumberCell(RoundDiv(point.gaitCyclePercent, 10), 10),
      TextCell(point.phase),
      NumberCell(RoundDiv(point.time, 10), 100),
      NumberCell(point.kneeLeft, 10),
      NumberCell(point.kneeRight, 10),
      TextCell(m)>>

\* Array.join over cells and over lines
JoinCells(cells) ==
    [k \in 1..(IF cells = <<>> THEN 0 ELSE 2 * Len(cells) - 1) |->
        IF k % 2 = 1 THEN cells[(k + 1) \div 2] ELSE Comma]

RECURSIVE JoinLines(_)
JoinLines(lines) ==
    IF lines = <<>> THEN <<>>
    ELSE IF Len(lines) = 1 THEN lines[1]
    ELSE lines[1] \o <<Newline>> \o JoinLines(Tail(lines))

generateCSVData(points, m) ==
    LET rows == [k \in 1..Len(points) |-> CsvRow(points[k], m)]
    IN  JoinLines(<<JoinCells([k \in 1..Len(headers) |-> TextCell(headers[k])])>>
                    \o [k \in 1..Len(rows) |-> JoinCells(rows[k])])

MaxRows == 3

DataPoint(gaitCyclePercent, ph, time, kneeLeft, kneeRight) ==
    [gaitCyclePercent |-> gaitCyclePercent, phase |-> ph, time |-> time,
     kneeLeft |-> kneeLeft, kneeRight |-> kneeRight]

\* points as generateKneeData builds them: the phase is a tag of
\* getPhaseAtPosition
ExportPoints ==
    {DataPoint(0, "IC", 0, 50, 612),
     DataPoint(1234, "LR", 124, 153, -20),
     DataPoint(5000, "TSt", 550, 0, 100),
     DataPoint(9996, "MSw", 1096, 600, 50)}

ExportLists == UNION {[1..n -> ExportPoints] : n \in 0..MaxRows}

InitExport ==
    /\ stage = "points"
    /\ dataPoints \in ExportLists
    /\ csvContent = <<>>
    /\ frameRate = FrameRate
    /\ data = <<>>
    /\ icEvents = <<>>
    /\ cycles = <<>>
    /\ leftAngles = <<>>
    /\ rightAngles = <<>>
    /\ mode = "walk"
    /\ analysis = NoAnalysis
    /\ NormIdle
    /\ PhaseIdle
    /\ HookIdle

\* new KneeGraphGenerator(m).generateCSVData(dataPoints)
GenerateCSVData ==
    /\ stage = "points"
    /\ \E m \in Modes :
          /\ mode' = m
          /\ csvContent' = generateCSVData(dataPoints, m)
    /\ stage' = "csv"
    /\ UNCHANGED <<dataPoints, leftAngles, rightAngles, analysis>>
    /\ UNCHANGED <<cycleVars, normVars, phaseVars, hookVars>>

NextExport == GenerateCSVData

SpecExport == InitExport /\ [][NextExport]_vars

(***************************************************************************)
(* The useAnalysis hook.  A call of startAnalysis runs to its first await  *)
(* and is then resumed by its timers; calls holds the calls in flight, in  *)
(* the order they were started, each with the seconds left on its timer.   *)
(***************************************************************************)
MaxCalls == 3

\* prev.slice(0, 9)
HistoryKept == 9

FileNames == {"a.mp4", "b.mp4"}

\* calls of startAnalysis so far: the ones in flight and the completed ones
Started == Len(calls) + Len(analysisHistory)

\* the delays of the three setTimeout calls, in seconds
UploadDelay == 1

ProcessingDelay == 2

AnalysisDelay == 5

\* startAnalysis up to its first await
BeginAnalysis(name) ==
    LET video == [id |-> Started + 1, name |-> name]
    IN  /\ error' = <<>>
        /\ status' = "uploading"
        /\ progress' = 10
        /\ currentVideo' = <<video>>
        /\ calls' = Append(calls, [video |-> video, step |-> "uploading",
                                   remaining |-> UploadDelay])
        /\ lastCall' = "start"
        /\ UNCHANGED analysisHistory

\* startAnalysis(videoFile)
StartAnalysis ==
    /\ stage = "hook"
    /\ Started < MaxCalls
    /\ \E name \in FileNames : BeginAnalysis(name)
    /\ UNCHANGED <<stage, cycleVars, romVars, normVars, phaseVars, exportVars>>

\* retryAnalysis(): startAnalysis with a file named as the current video
RetryAnalysis ==
    /\ stage = "hook"
    /\ Started < MaxCalls
    /\ currentVideo # <<>>
    /\ BeginAnalysis(currentVideo[1].name)
    /\ UNCHANGED <<stage, cycleVars, romVars, normVars, phaseVars, exportVars>>

\* resetAnalysis(): the timers of the calls in flight are left running
ResetAnalysis ==
    /\ stage = "hook"
    /\ status' = "idle"
    /\ progress' = 0
    /\ error' = <<>>
    /\ currentVideo' = <<>>
    /\ lastCall' = "reset"
    /\ UNCHANGED <<analysisHistory, calls>>
    /\ UNCHANGED <<stage, cycleVars, romVars, normVars, phaseVars, exportVars>>

\* the sequence without its i-th element
RemoveAt(s, i) == SubSeq(s, 1, i - 1) \o SubSeq(s, i + 1, Len(s))

\* the call whose timer fires next: the earliest started of the due ones
DueCall(i) ==
    /\ calls[i].remaining = 0
    /\ \A j \in 1..(i - 1) : calls[j].remaining # 0

\* the continuation after the upload timer
UploadDone ==
    /\ stage = "hook"
    /\ \E i \in 1..Len(calls) :
          /\ DueCall(i)
          /\ calls[i].step = "uploading"
          /\ status' = "processing"
          /\ progress' = 30
          /\ calls' = [calls EXCEPT ![i] = [@ EXCEPT !.step = "processing",
                                                     !.remaining = ProcessingDelay]]
    /\ UNCHANGED <<error, currentVideo, analysisHistory, lastCall>>
    /\ UNCHANGED <<stage, cycleVars, romVars, normVars, phaseVars, exportVars>>

\* the continuation after the processing timer
ProcessingDone ==
    /\ stage = "hook"
    /\ \E i \in 1..Len(calls) :
          /\ DueCall(i)
          /\ calls[i].step = "processing"
          /\ status' = "analyzing"
          /\ progress' = 70
          /\ calls' = [calls EXCEPT ![i] = [@ EXCEPT !.step = "analyzing",
                                                     !.remaining = AnalysisDelay]]
    /\ UNCHANGED <<error, currentVideo, analysisHistory, lastCall>>
    /\ UNCHANGED <<stage, cycleVars, romVars, normVars, phaseVars, exportVars>>

\* the continuation after the analysis timer: the result goes to the history
AnalysisDone ==
    /\ stage = "hook"
    /\ \E i \in 1..Len(calls) :
          /\ DueCall(i)
          /\ calls[i].step = "analyzing"
          /\ status' = "completed"
          /\ progress' = 100
          /\ analysisHistory' =
                <<[videoId |-> calls[i].video.id, status |-> "completed", progress |-> 100]>>
                    \o SubSeq(analysisHistory, 1, Min2(HistoryKept, Len(analysisHistory)))
          /\ calls' = RemoveAt(calls, i)
    /\ UNCHANGED <<error, currentVideo, lastCall>>
    /\ UNCHANGED <<stage, cycleVars, romVars, normVars, phaseVars, exportVars>>

\* one second passes with no timer due
Tick ==
    /\ stage = "hook"
    /\ calls # <<>>
    /\ \A i \in 1..Len(calls) : calls[i].remaining > 0
    /\ calls' = [i \in 1..Len(calls) |->
                    [calls[i] EXCEPT !.remaining = @ - 1]]
    /\ UNCHANGED <<status, progress, error, currentVideo, analysisHistory, lastCall>>
    /\ UNCHANGED <<stage, cycleVars, romVars, normVars, phaseVars, exportVars>>

InitAnalysis ==
    /\ stage = "hook"
    /\ HookIdle
    /\ frameRate = FrameRate
    /\ data = <<>>
    /\ icEvents = <<>>
    /\ cycles = <<>>
    /\ leftAngles = <<>>
    /\ rightAngles = <<>>
    /\ mode = "walk"
    /\ analysis = NoAnalysis
    /\ NormIdle
    /\ PhaseIdle
    /\ ExportIdle

NextAnalysis ==
    \/ StartAnalysis
    \/ RetryAnalysis
    \/ ResetAnalysis
    \/ UploadDone
    \/ ProcessingDone
    \/ AnalysisDone
    \/ Tick

SpecAnalysis == InitAnalysis /\ [][NextAnalysis]_vars

Init ==
    \/ InitCycle
    \/ InitROM
    \/ InitNormalize
    \/ InitPhase
    \/ InitSummary
    \/ InitExport
    \/ InitAnalysis

Next ==
    \/ NextCycle
    \/ NextROM
    \/ NextNormalize
    \/ NextPhase
    \/ NextSummary
    \/ NextExport
    \/ NextAnalysis

Spec == Init /\ [][Next]_vars

Hip == stage = "analysis" /\ analysis.joint = "hip"

Knee == stage = "analysis" /\ analysis.joint = "knee"

Ankle == stage = "analysis" /\ analysis.joint = "ankle"

(***************************************************************************)
(* Vocabulary of the ROM claims.                                           *)
(***************************************************************************)
Analysed == stage = "analysis"

LegNames == {"left", "right"}

SeriesOf(leg) == IF leg = "left" THEN leftAngles ELSE rightAngles

ResultOf(leg) == IF leg = "left" THEN analysis.left ELSE analysis.right

\* the k-th smallest sample of a non-empty series, k counted from 0: the
\* value v with at most k samples below it and more than k samples at most v
IsRank(series, k, v) ==
    /\ \E x \in 1..Len(series) : series[x] = v
    /\ Cardinality({x \in 1..Len(series) : series[x] < v}) <= k
    /\ Cardinality({x \in 1..Len(series) : series[x] <= v}) > k

\* a is x / 2 rounded to the nearest integer, a half rounding up
IsHalfRounded(a, x) == x = 2 * a \/ x = 2 * a - 1

IsFlat(series) == Len(series) >= 1 /\ \A k \in 1..Len(series) : series[k] = series[1]

(***************************************************************************)
(* C3: for every finite angle series, the empty and the one-element series *)
(* included, the totalROM of each joint's ROM calculation (hip, knee,      *)
(* ankle) is a number greater than or equal to 0.                          *)
(***************************************************************************)
C3_TotalROMNonNegative ==
    Analysed =>
        \A leg \in LegNames :
            IF analysis.joint = "ankle"
            THEN ~IsNaN(ResultOf(leg).totalROM) /\ ResultOf(leg).totalROM[1] >= 0
            ELSE ResultOf(leg).totalROM >= 0

(***************************************************************************)
(* C4: ROMCalculator.calculateLegROM on an empty angle array returns a     *)
(* result whose anatomicalZero, maxFlexion, maxExtension and totalROM are  *)
(* 0, whose confidence is 0 and whose method is percentile_fallback.       *)
(***************************************************************************)
C4_EmptyLegROM ==
    Hip =>
        \A leg \in LegNames :
            Len(SeriesOf(leg)) = 0 =>
                /\ ResultOf(leg).anatomicalZero = 0
                /\ ResultOf(leg).maxFlexion = 0
                /\ ResultOf(leg).maxExtension = 0
                /\ ResultOf(leg).totalROM = 0
                /\ ResultOf(leg).confidence.n = 0
                /\ ResultOf(leg).method = "percentile_fallback"

\* the hip analysis of an empty left series beside a non-empty right series
C4_Witness ==
    /\ Hip
    /\ leftAngles = <<>>
    /\ rightAngles = StrongSeries
    /\ analysis.left.totalROM = 0
    /\ analysis.right.totalROM = 200

(***************************************************************************)
(* C5 as stated: whenever findPeaks yields at least one flexion peak and   *)
(* at least one extension peak for a series, the hip ROM calculation       *)
(* returns method peak_detection with maxFlexion the largest flexion-peak  *)
(* value, maxExtension the smallest extension-peak value and               *)
(* totalROM = maxFlexion - maxExtension.                                   *)
(***************************************************************************)
HipPeaks(leg) == findPeaks(SeriesOf(leg), ResultOf(leg).anatomicalZero)

HasBothPeaks(peaks) ==
    /\ \E k \in 1..Len(peaks) : peaks[k].type = "flexion"
    /\ \E k \in 1..Len(peaks) : peaks[k].type = "extension"

\* the mean of the peaks' confidences exceeds 0.3
MeanConfidenceAbove3Tenths(peaks) ==
    10 * SeqSum([k \in 1..Len(peaks) |-> peaks[k].confidence.n])
        > 3 * 200 * Len(peaks)

IsPeakResult(result, peaks) ==
    /\ result.method = "peak_detection"
    /\ \E k \in 1..Len(peaks) : peaks[k].type = "flexion" /\ peaks[k].value = result.maxFlexion
    /\ \A k \in 1..Len(peaks) : peaks[k].type = "flexion" => peaks[k].value <= result.maxFlexion
    /\ \E k \in 1..Len(peaks) :
          peaks[k].type = "extension" /\ peaks[k].value = result.maxExtension
    /\ \A k \in 1..Len(peaks) :
          peaks[k].type = "extension" => peaks[k].value >= result.maxExtension
    /\ result.totalROM = result.maxFlexion - result.maxExtension

C5_PeakDetectionWheneverBothPeaks ==
    Hip =>
        \A leg \in LegNames :
            (Len(SeriesOf(leg)) > 0 /\ HasBothPeaks(HipPeaks(leg)))
                => IsPeakResult(ResultOf(leg), HipPeaks(leg))

(***************************************************************************)
(* C5 amended: the hip ROM calculation returns method peak_detection, with *)
(* maxFlexion the largest flexion-peak value, maxExtension the smallest    *)
(* extension-peak value and totalROM = maxFlexion - maxExtension, exactly  *)
(* when findPeaks yields at least one flexion peak and at least one        *)
(* extension peak and the mean confidence of the peaks exceeds 0.3; the    *)
(* 101-point series with 70 at index 75 and -5 at index 95 gives 70, -5,   *)
(* 75, peak_detection.                                                     *)
(***************************************************************************)
C5_PeakDetectionWhenConfident ==
    Hip =>
        /\ \A leg \in LegNames :
              Len(SeriesOf(leg)) > 0 =>
                  IF HasBothPeaks(HipPeaks(leg)) /\ MeanConfidenceAbove3Tenths(HipPeaks(leg))
                  THEN IsPeakResult(ResultOf(leg), HipPeaks(leg))
                  ELSE ResultOf(leg).method = "percentile_fallback"
        /\ leftAngles = ScenarioPeakSeries =>
              /\ analysis.left.maxFlexion = 700
              /\ analysis.left.maxExtension = -50
              /\ analysis.left.totalROM = 750
              /\ analysis.left.method = "peak_detection"

\* the documented scenario on the left, and on the right a series with both
\* kinds of peaks whose mean confidence is exactly 0.3
C5_Witness ==
    /\ Hip
    /\ leftAngles = ScenarioPeakSeries
    /\ analysis.left.method = "peak_detection"
    /\ analysis.left.totalROM = 750

C5_WeakPeaksWitness ==
    /\ Hip
    /\ HasBothPeaks(HipPeaks("left"))
    /\ ~MeanConfidenceAbove3Tenths(HipPeaks("left"))
    /\ analysis.left.method = "percentile_fallback"

(***************************************************************************)
(* C6: in every joint's ROM calculation, whenever the series does not      *)
(* yield both a flexion (dorsiflexion) peak and an extension               *)
(* (plantarflexion) peak, the two reported bounds are the elements at      *)
(* index floor(0.95 n) and floor(0.05 n) of the sorted full angle series;  *)
(* in the hip ROMCalculator the result then carries confidence 0.7 and     *)
(* method percentile_fallback.  Stated for non-empty series.               *)
(***************************************************************************)
\* the series yields a peak of the type, by the joint's own peak scan
YieldsPeak(leg, type) ==
    IF analysis.joint = "hip"
    THEN \E k \in 1..Len(HipPeaks(leg)) : HipPeaks(leg)[k].type = type
    ELSE IF analysis.joint = "knee"
    THEN LET peaks == KneeFindPeaks(SeriesOf(leg), ResultOf(leg).anatomicalZero)
         IN  \E k \in 1..Len(peaks) : peaks[k].type = type
    ELSE Len(AnkleScan(SeriesOf(leg), ResultOf(leg).anatomicalZero,
                       IF type = "flexion" THEN "dorsiflexion" ELSE "plantarflexion", 1)) > 0

UpperBound(leg) ==
    IF analysis.joint = "ankle" THEN ResultOf(leg).maxDorsiflexion
    ELSE Num(ResultOf(leg).maxFlexion)

LowerBound(leg) ==
    IF analysis.joint = "ankle" THEN ResultOf(leg).maxPlantarflexion
    ELSE Num(ResultOf(leg).maxExtension)

C6_PercentileFallback ==
    Analysed =>
        \A leg \in LegNames :
            LET series == SeriesOf(leg)
                n == Len(series)
            IN  (n > 0 /\ ~(YieldsPeak(leg, "flexion") /\ YieldsPeak(leg, "extension"))) =>
                    /\ ~IsNaN(UpperBound(leg))
                    /\ ~IsNaN(LowerBound(leg))
                    /\ IsRank(series, (95 * n) \div 100, UpperBound(leg)[1])
                    /\ IsRank(series, (5 * n) \div 100, LowerBound(leg)[1])
                    /\ analysis.joint = "hip" =>
                          /\ ResultOf(leg).confidence.n * 10 = 7 * ResultOf(leg).confidence.d
                          /\ ResultOf(leg).method = "percentile_fallback"

(***************************************************************************)
(* C7: in every bilateral ROM analysis (hip, knee, ankle) asymmetry equals *)
(* |left.totalROM - right.totalROM| and averageROM equals                  *)
(* (left.totalROM + right.totalROM) / 2, each rounded to one decimal, and  *)
(* asymmetry is never negative.  Where a leg's totalROM is NaN (an ankle   *)
(* series too short for an anatomical zero) both are NaN.                  *)
(***************************************************************************)
C7_AsymmetryAndAverage ==
    Analysed =>
        IF analysis.joint = "ankle"
        THEN IF IsNaN(analysis.left.totalROM) \/ IsNaN(analysis.right.totalROM)
             THEN IsNaN(analysis.asymmetry) /\ IsNaN(analysis.averageROM)
             ELSE LET l == analysis.left.totalROM[1]
                      r == analysis.right.totalROM[1]
                  IN  /\ ~IsNaN(analysis.asymmetry)
                      /\ ~IsNaN(analysis.averageROM)
                      /\ analysis.asymmetry[1] \in {l - r, r - l}
                      /\ analysis.asymmetry[1] >= 0
                      /\ IsHalfRounded(analysis.averageROM[1], l + r)
        ELSE LET l == analysis.left.totalROM
                 r == analysis.right.totalROM
             IN  /\ analysis.asymmetry \in {l - r, r - l}
                 /\ analysis.asymmetry >= 0
                 /\ IsHalfRounded(analysis.averageROM, l + r)

\* a hip analysis of two legs with different ROMs whose mean has a second
\* decimal to round
C7_Witness ==
    /\ Hip
    /\ analysis.left.totalROM # analysis.right.totalROM
    /\ analysis.left.totalROM > 0
    /\ analysis.right.totalROM > 0
    /\ (analysis.left.totalROM + analysis.right.totalROM) % 2 = 1
    /\ analysis.asymmetry > 0

(***************************************************************************)
(* C8: the dataQuality of a bilateral analysis is the first bucket, in the *)
(* order excellent, good, fair, whose own cutoff pair is satisfied         *)
(* (confidence strictly above the bucket's confidence cutoff and asymmetry *)
(* strictly below its asymmetry cutoff), and poor when none is; for the    *)
(* hip the confidence is the mean of the two legs' confidences and the     *)
(* cutoff pairs are (0.8, 5), (0.6, 10), (0.4, 15).                        *)
(***************************************************************************)
\* confidence c = cn / cd exceeds tn / 100 and asymmetry a (tenths) is below ta
Satisfied(cn, cd, a, tn, ta) == cn * 100 > tn * cd /\ a < ta

\* q is the first satisfied bucket of the cutoff pairs e, g, f (each a pair
\* <<confidence in hundredths, asymmetry in tenths>>)
IsFirstBucket(q, cn, cd, a, e, g, f) ==
    LET E == Satisfied(cn, cd, a, e[1], e[2])
        G == Satisfied(cn, cd, a, g[1], g[2])
        F == Satisfied(cn, cd, a, f[1], f[2])
    IN  /\ q \in {"excellent", "good", "fair", "poor"}
        /\ q = "excellent" <=> E
        /\ q = "good" <=> (~E /\ G)
        /\ q = "fair" <=> (~E /\ ~G /\ F)
        /\ q = "poor" <=> (~E /\ ~G /\ ~F)

\* the knee generator's cutoff pairs of the three modes
KneeCutoffs(m) ==
    IF m = "walk" THEN <<(<<80, 50>>), (<<60, 100>>), (<<40, 150>>)>>
    ELSE IF m = "run" THEN <<(<<85, 80>>), (<<65, 150>>), (<<45, 200>>)>>
    ELSE <<(<<90, 100>>), (<<70, 180>>), (<<50, 250>>)>>

C8_DataQualityBucket ==
    Analysed =>
        IF analysis.joint = "hip"
        THEN LET cl == analysis.left.confidence
                 cr == analysis.right.confidence
             IN  IsFirstBucket(analysis.dataQuality,
                               cl.n * cr.d + cr.n * cl.d, 2 * cl.d * cr.d,
                               analysis.asymmetry,
                               <<80, 50>>, <<60, 100>>, <<40, 150>>)
        ELSE IF analysis.joint = "knee"
        THEN IsFirstBucket(analysis.dataQuality, 85, 100, analysis.asymmetry,
                           KneeCutoffs(mode)[1], KneeCutoffs(mode)[2], KneeCutoffs(mode)[3])
        ELSE LET ll == analysis.left
                 rr == analysis.right
             IN  IF IsNaN(analysis.asymmetry) \/ ll.totalROM[1] = 0 \/ rr.totalROM[1] = 0
                 THEN analysis.dataQuality = "poor"
                 ELSE LET dl == Abs(ll.maxDorsiflexion[1] - ll.maxPlantarflexion[1])
                          dr == Abs(rr.maxDorsiflexion[1] - rr.maxPlantarflexion[1])
                      IN  IsFirstBucket(analysis.dataQuality,
                                        dl * rr.totalROM[1] + dr * ll.totalROM[1],
                                        2 * ll.totalROM[1] * rr.totalROM[1],
                                        analysis.asymmetry[1],
                                        <<80, 50>>, <<60, 100>>, <<40, 150>>)

\* a hip analysis rated good: the excellent pair fails, the good pair holds
C8_Witness ==
    /\ Hip
    /\ analysis.dataQuality = "good"
    /\ analysis.asymmetry >= 50
    /\ analysis.asymmetry < 100
    /\ analysis.left.method = "peak_detection"

(***************************************************************************)
(* C9 as stated: for every angle series s, the hip                         *)
(* calculateBilateralROM(s, s) returns asymmetry 0 and a dataQuality that  *)
(* is good or excellent.                                                   *)
(***************************************************************************)
C9_IdenticalSeriesAtLeastGood ==
    (Hip /\ leftAngles = rightAngles) =>
        /\ analysis.asymmetry = 0
        /\ analysis.dataQuality \in {"good", "excellent"}

(***************************************************************************)
(* C9 amended: for every angle series s, the hip                           *)
(* calculateBilateralROM(s, s) returns asymmetry 0, and its dataQuality is *)
(* good or excellent exactly when the confidence of the leg's ROM result   *)
(* exceeds 0.6, which it does for every non-empty series handled by the    *)
(* percentile fallback; the empty series (confidence 0) and a series whose *)
(* peak confidence is at most 0.6 are rated fair or poor.                  *)
(***************************************************************************)
C9_IdenticalSeriesQuality ==
    (Hip /\ leftAngles = rightAngles) =>
        /\ analysis.asymmetry = 0
        /\ analysis.left = analysis.right
        /\ analysis.dataQuality \in {"good", "excellent"}
              <=> analysis.left.confidence.n * 10 > 6 * analysis.left.confidence.d
        /\ (Len(leftAngles) > 0 /\ analysis.left.method = "percentile_fallback")
              => analysis.dataQuality = "good"
        /\ Len(leftAngles) = 0 => analysis.dataQuality = "poor"

\* identical series with both kinds of peaks whose ROM is found by peak
\* detection with a confidence of at most 0.6
C9_Witness ==
    /\ Hip
    /\ leftAngles = rightAngles
    /\ analysis.left.method = "peak_detection"
    /\ analysis.left.totalROM > 0
    /\ analysis.dataQuality = "fair"

(***************************************************************************)
(* C10 as stated: for a flat, peakless series on both legs (101 zeros      *)
(* each, for one) the hip calculateBilateralROM returns asymmetry 0,       *)
(* averageROM 0, a per-leg confidence of 0, and dataQuality poor.          *)
(***************************************************************************)
C10_FlatSeriesPoor ==
    (Hip /\ IsFlat(leftAngles) /\ IsFlat(rightAngles)) =>
        /\ analysis.asymmetry = 0
        /\ analysis.averageROM = 0
        /\ analysis.left.confidence.n = 0
        /\ analysis.right.confidence.n = 0
        /\ analysis.dataQuality = "poor"

(***************************************************************************)
(* C10 amended: for a flat, peakless series on both legs (101 zeros each,  *)
(* for one) the hip calculateBilateralROM returns asymmetry 0, averageROM  *)
(* 0, a per-leg confidence of 0.7 with method percentile_fallback, and     *)
(* dataQuality good.                                                       *)
(***************************************************************************)
C10_FlatSeriesGood ==
    (Hip /\ IsFlat(leftAngles) /\ IsFlat(rightAngles)) =>
        /\ analysis.asymmetry = 0
        /\ analysis.averageROM = 0
        /\ \A leg \in LegNames :
              /\ ResultOf(leg).totalROM = 0
              /\ ResultOf(leg).method = "percentile_fallback"
              /\ ResultOf(leg).confidence.n * 10 = 7 * ResultOf(leg).confidence.d
        /\ analysis.dataQuality = "good"

\* the documented scenario: 101 zeros on both legs
C10_Witness ==
    /\ Hip
    /\ leftAngles = ScenarioFlatSeries
    /\ rightAngles = ScenarioFlatSeries
    /\ analysis.dataQuality = "good"

(***************************************************************************)
(* Vocabulary of the normalisation claims.                                 *)
(***************************************************************************)
Normalized == stage = "normalized"

Averaged == stage = "averaged"

\* the angle sub-series of a cycle for a joint
CycleAngles(cycle, joint) ==
    IF joint = "hip" THEN cycle.hipAngles
    ELSE IF joint = "knee" THEN cycle.kneeAngles ELSE cycle.ankleAngles

\* the averaged series of a leg and joint
AverageOf(leg, joint) ==
    IF leg = "left"
    THEN (IF joint = "hip" THEN averages.leftHip
          ELSE IF joint = "knee" THEN averages.leftKnee ELSE averages.leftAnkle)
    ELSE (IF joint = "hip" THEN averages.rightHip
          ELSE IF joint = "knee" THEN averages.rightKnee ELSE averages.rightAnkle)

(***************************************************************************)
(* C11: for every list of cycles, whatever the length of each cycle's      *)
(* angle sub-series, and every pointsCount >= 1, each of the hip, knee and *)
(* ankle series of every normalized cycle returned by normalizeGaitCycles  *)
(* has exactly pointsCount entries.                                        *)
(***************************************************************************)
C11_NormalizedLength ==
    Normalized /\ pointsCount >= 1 =>
        /\ Len(normalizedCycles) = Len(cycles)
        /\ \A k \in 1..Len(normalizedCycles) : \A joint \in Joints :
              Len(NormalizedOf(normalizedCycles[k], joint)) = pointsCount

(***************************************************************************)
(* C12: resampling is idempotent for an identical target length: for every *)
(* non-empty series x and pointsCount n, resampling the n-point resample   *)
(* of x again to n points returns that n-point series unchanged.           *)
(***************************************************************************)
C12_ResampleIdempotent ==
    Normalized =>
        \A k \in 1..Len(normalizedCycles) : \A joint \in Joints :
            Len(CycleAngles(cycles[k], joint)) > 0 =>
                resampleData(NormalizedOf(normalizedCycles[k], joint), pointsCount)
                    = NormalizedOf(normalizedCycles[k], joint)

\* a series of more samples than pointsCount was resampled by interpolation
\* to at least three points that are not all the same
C12_Witness ==
    /\ Normalized
    /\ pointsCount >= 3
    /\ \E k \in 1..Len(normalizedCycles) :
          /\ Len(cycles[k].hipAngles) > pointsCount
          /\ Len(normalizedCycles[k].normalizedHip) = pointsCount
          /\ normalizedCycles[k].normalizedHip[2] # normalizedCycles[k].normalizedHip[1]
          /\ normalizedCycles[k].normalizedHip[2] \notin
                {Num(cycles[k].hipAngles[i]) : i \in 1..Len(cycles[k].hipAngles)}

(***************************************************************************)
(* C13: normalizeGaitCycles applied to a cycle whose angle sub-series has  *)
(* exactly one sample v returns, for that joint, a series of pointsCount   *)
(* entries all equal to v.                                                 *)
(***************************************************************************)
C13_SingleSampleBroadcast ==
    Normalized =>
        \A k \in 1..Len(normalizedCycles) : \A joint \in Joints :
            Len(CycleAngles(cycles[k], joint)) = 1 =>
                /\ Len(NormalizedOf(normalizedCycles[k], joint)) = pointsCount
                /\ \A i \in 1..pointsCount :
                      NormalizedOf(normalizedCycles[k], joint)[i]
                          = <<CycleAngles(cycles[k], joint)[1]>>

\* a one-sample cycle was normalized to the default 101 points
C13_Witness ==
    /\ Normalized
    /\ pointsCount = 101
    /\ \E k \in 1..Len(normalizedCycles) :
          /\ Len(cycles[k].kneeAngles) = 1
          /\ Len(normalizedCycles[k].normalizedKnee) = 101

(***************************************************************************)
(* C14: calculateAverageAngles returns, for each leg and joint, the series *)
(* whose value at every position is the mean (rounded to one decimal) of   *)
(* that leg's normalized cycles at that position, and a leg with zero      *)
(* normalized cycles yields a series consisting only of zeros.             *)
(***************************************************************************)
\* x is the mean of the numbers in s, rounded to a whole number of tenths
IsRoundedMean(x, s) ==
    /\ x # <<>>
    /\ \A k \in 1..Len(s) : s[k] # <<>>
    /\ 2 * Len(s) * x[1] - Len(s) <= 2 * SeqSum([k \in 1..Len(s) |-> s[k][1]])
    /\ 2 * SeqSum([k \in 1..Len(s) |-> s[k][1]]) < 2 * Len(s) * x[1] + Len(s)

\* the leg's normalized cycles all have the position i, and none is NaN there
PositionDefined(cs, joint, i) ==
    \A k \in 1..Len(cs) :
        /\ i <= Len(NormalizedOf(cs[k], joint))
        /\ NormalizedOf(cs[k], joint)[i] # <<>>

C14_AverageAngles ==
    Averaged =>
        \A leg \in Legs : \A joint \in Joints :
            LET cs == LegCyclesOf(normalizedCycles, leg)
                series == AverageOf(leg, joint)
            IN  IF cs = <<>>
                THEN \A i \in 1..Len(series) : series[i] = <<0>>
                ELSE /\ Len(series) = pointsCount
                     /\ \A i \in 1..Len(series) :
                           PositionDefined(cs, joint, i) =>
                               IsRoundedMean(series[i],
                                   [k \in 1..Len(cs) |-> NormalizedOf(cs[k], joint)[i]])

\* the averaged series of a leg is longer than its normalized cycles although
\* every normalized cycle has pointsCount entries
C14_LengthFromLeftLeg ==
    /\ Averaged
    /\ \A k \in 1..Len(normalizedCycles) : \A joint \in Joints :
          Len(NormalizedOf(normalizedCycles[k], joint)) = pointsCount
    /\ LegCyclesOf(normalizedCycles, "right") # <<>>
    /\ Len(averages.rightHip) > pointsCount
    /\ averages.rightHip[pointsCount + 1] = <<>>

(***************************************************************************)
(* C15: the phase catalog STANDARD_PHASES has exactly 8 phases in the      *)
(* order IC, LR, MSt, TSt, PSw, ISw, MSw, TSw; the first starts at 0, the  *)
(* last ends at 100, each phase has start < end, and every phase's end     *)
(* equals the next phase's start (no overlap, no gap).  Checked wherever   *)
(* the catalog is about to be, or has been, searched.                      *)
(***************************************************************************)
C15_PhaseCatalog ==
    stage \in {"percent", "phase"} =>
        /\ Len(STANDARD_PHASES) = 8
        /\ [k \in 1..Len(STANDARD_PHASES) |-> STANDARD_PHASES[k].abbreviation]
              = <<"IC", "LR", "MSt", "TSt", "PSw", "ISw", "MSw", "TSw">>
        /\ STANDARD_PHASES[1].startPercent = 0
        /\ STANDARD_PHASES[Len(STANDARD_PHASES)].endPercent = 100
        /\ \A k \in 1..Len(STANDARD_PHASES) :
              STANDARD_PHASES[k].startPercent < STANDARD_PHASES[k].endPercent
        /\ \A k \in 1..(Len(STANDARD_PHASES) - 1) :
              STANDARD_PHASES[k].endPercent = STANDARD_PHASES[k + 1].startPercent

\* the catalog was searched to its last phase, which was found at 100 percent
C15_Witness ==
    /\ stage = "phase"
    /\ percent = 100
    /\ phase # <<>>
    /\ phase[1].abbreviation = "TSw"

(***************************************************************************)
(* C16: for every percent p in [0,100], getPhaseAtPercent(p) returns the   *)
(* single phase whose half-open interval [start, end) contains p (the      *)
(* final phase also containing 100), so a shared boundary value resolves   *)
(* to the phase that starts there (getPhaseAtPercent(12) is MSt); for p    *)
(* outside [0,100] it returns none.                                        *)
(***************************************************************************)
C16_HalfOpenPhase ==
    stage = "phase" =>
        IF percent >= 0 /\ percent <= 100
        THEN /\ phase # <<>>
             /\ phase[1].startPercent <= percent
             /\ \/ percent < phase[1].endPercent
                \/ percent = 100 /\ phase[1].abbreviation = "TSw"
        ELSE phase = <<>>

\* the boundary 12 resolves to the phase that ends there
C16_BoundaryResolvesToEarlierPhase ==
    /\ stage = "phase"
    /\ percent = 12
    /\ phase # <<>>
    /\ phase[1].abbreviation = "LR"

(***************************************************************************)
(* C17: for every list of phase transitions, validateTransitions returns a *)
(* list of the same length, ordered by ascending percent, in which every   *)
(* consecutive pair differs by at least 5 and at most 40 percent.          *)
(***************************************************************************)
C17_ValidatedTransitions ==
    stage = "validated" =>
        /\ Len(validated) = Len(transitions)
        /\ \A k \in 1..(Len(validated) - 1) :
              /\ validated[k].percent <= validated[k + 1].percent
              /\ validated[k + 1].percent - validated[k].percent >= 5
              /\ validated[k + 1].percent - validated[k].percent <= 40

\* the list 50, 0, 3 (the frame keeps the percent handed in) was sorted, its
\* second transition moved up to 5 and its third moved down to 45
C17_Witness ==
    /\ stage = "validated"
    /\ Len(validated) = 3
    /\ [k \in 1..3 |-> validated[k].frame] = <<0, 3, 50>>
    /\ [k \in 1..3 |-> validated[k].percent] = <<0, 5, 45>>
    /\ [k \in 1..3 |-> transitions[k].percent] = <<45, 0, 5>>

(***************************************************************************)
(* C18: for every joint calculator (hip ROMCalculator, knee generator,     *)
(* ankle calculator) and every non-empty series, the anatomical zero       *)
(* equals the mean of the first min(15, length) samples rounded to one     *)
(* decimal, so changing any sample at index 15 or later never changes it.  *)
(***************************************************************************)
\* the anatomical zero of a leg's result as a number that may be NaN
ZeroOf(leg) ==
    IF analysis.joint = "ankle" THEN ResultOf(leg).anatomicalZero
    ELSE <<ResultOf(leg).anatomicalZero>>

\* z is sum / n rounded to the nearest integer, a half rounding up
IsRoundedQuotient(z, sum, n) == 2 * n * z - n <= 2 * sum /\ 2 * sum < 2 * n * z + n

FirstSamplesSum(series, n) == SeqSum([k \in 1..n |-> series[k]])

IsMeanOfFirst15(z, series) ==
    LET n == IF Len(series) < 15 THEN Len(series) ELSE 15
    IN  /\ z # <<>>
        /\ IsRoundedQuotient(z[1], FirstSamplesSum(series, n), n)

C18_AnatomicalZeroOfFirst15 ==
    Analysed =>
        \A leg \in LegNames :
            SeriesOf(leg) # <<>> => IsMeanOfFirst15(ZeroOf(leg), SeriesOf(leg))

\* the ankle calculator's zero of a series of 10 or more samples is a number
\* that is not the mean of the first 15 samples
C18_AnkleZeroOfFirstTenth ==
    /\ Ankle
    /\ Len(leftAngles) >= 10
    /\ ZeroOf("left") # <<>>
    /\ ~IsMeanOfFirst15(ZeroOf("left"), leftAngles)

(***************************************************************************)
(* C19: findPeaks reports index i as a flexion peak only if angles[i] is   *)
(* above the anatomical zero and strictly greater than each of the 3       *)
(* samples before and the 3 samples after it (extension peak: below zero   *)
(* and strictly smaller); a sample that ties with any other sample inside  *)
(* its window is never reported as a peak.                                 *)
(***************************************************************************)
\* the 0-based indices of the window around i, i excluded
WindowAround(series, i) == ((i - 3)..(i + 3)) \ {i}

IsStrictFlexionPeak(series, zero, i) ==
    /\ series[i + 1] > zero
    /\ \A j \in WindowAround(series, i) : series[j + 1] < series[i + 1]

IsStrictExtensionPeak(series, zero, i) ==
    /\ series[i + 1] < zero
    /\ \A j \in WindowAround(series, i) : series[j + 1] > series[i + 1]

\* the indices findPeaks scans
Scanned(series) == 3..(Len(series) - 4)

StrictPeakCount(series, zero, type) ==
    Cardinality({i \in Scanned(series) :
        IF type = "flexion" THEN IsStrictFlexionPeak(series, zero, i)
        ELSE IsStrictExtensionPeak(series, zero, i)})

C19_StrictPeaks ==
    /\ Hip =>
        \A leg \in LegNames :
            \A k \in 1..Len(HipPeaks(leg)) :
                LET p == HipPeaks(leg)[k]
                IN  /\ p.index \in Scanned(SeriesOf(leg))
                    /\ IF p.type = "flexion"
                       THEN IsStrictFlexionPeak(SeriesOf(leg), ResultOf(leg).anatomicalZero, p.index)
                       ELSE IsStrictExtensionPeak(SeriesOf(leg), ResultOf(leg).anatomicalZero, p.index)
    /\ Knee =>
        \A leg \in LegNames : \A type \in {"flexion", "extension"} :
            Len(PeaksOfType(KneeFindPeaks(SeriesOf(leg), ResultOf(leg).anatomicalZero), type))
                <= StrictPeakCount(SeriesOf(leg), ResultOf(leg).anatomicalZero, type)

\* two adjacent equal samples are both reported as flexion peaks
C19_TiedPeaksReported ==
    /\ Hip
    /\ \E k \in 1..(Len(HipPeaks("left")) - 1) :
          /\ HipPeaks("left")[k].type = "flexion"
          /\ HipPeaks("left")[k + 1].type = "flexion"
          /\ HipPeaks("left")[k + 1].index = HipPeaks("left")[k].index + 1
          /\ HipPeaks("left")[k + 1].value = HipPeaks("left")[k].value

(***************************************************************************)
(* C20: every ROMResult returned by ROMCalculator.calculateLegROM          *)
(* satisfies totalROM = |maxFlexion - anatomicalZero| + |maxExtension -    *)
(* anatomicalZero|, whichever method produced it.                          *)
(***************************************************************************)
ZeroRelativeROM(r) ==
    Abs(r.maxFlexion - r.anatomicalZero) + Abs(r.maxExtension - r.anatomicalZero)

C20_TotalROMZeroRelative ==
    Hip => \A leg \in LegNames : ResultOf(leg).totalROM = ZeroRelativeROM(ResultOf(leg))

(***************************************************************************)
(* C20, as the code has it: every ROMResult returned by calculateLegROM    *)
(* satisfies totalROM = maxFlexion - maxExtension; this is the sum of the  *)
(* two distances from the anatomical zero for every peak_detection result, *)
(* and for a percentile_fallback result exactly when the anatomical zero   *)
(* lies between maxExtension and maxFlexion.                               *)
(***************************************************************************)
C20_TotalROMNetExcursion ==
    Hip =>
        \A leg \in LegNames :
            LET r == ResultOf(leg)
            IN  /\ r.totalROM = r.maxFlexion - r.maxExtension
                /\ r.method = "peak_detection" => r.totalROM = ZeroRelativeROM(r)
                /\ r.method = "percentile_fallback" =>
                      (r.totalROM = ZeroRelativeROM(r)
                          <=> (r.maxExtension <= r.anatomicalZero
                                /\ r.anatomicalZero <= r.maxFlexion))

\* a percentile_fallback result with a positive totalROM whose anatomical zero
\* lies below both percentiles
C20_Witness ==
    /\ Hip
    /\ analysis.left.method = "percentile_fallback"
    /\ analysis.left.totalROM > 0
    /\ analysis.left.anatomicalZero < analysis.left.maxExtension
    /\ analysis.left.totalROM # ZeroRelativeROM(analysis.left)

(***************************************************************************)
(* C21: for every input series, the confidence reported by the hip         *)
(* ROMCalculator (ROMResult.confidence per leg) and by the ankle           *)
(* AnkleROMCalculator.calculateQualityMetrics is a number in [0, 1].       *)
(***************************************************************************)
\* the rational c lies in [0, 1]
InUnitInterval(c) == c.d > 0 /\ 0 <= c.n /\ c.n <= c.d

C21_ConfidenceInUnitInterval ==
    /\ Hip => \A leg \in LegNames : InUnitInterval(ResultOf(leg).confidence)
    /\ Ankle =>
          /\ analysis.confidence # <<>>
          /\ analysis.confidence[1] \in 0..100

\* the ankle confidence of two flat series of 101 samples is NaN
C21_FlatAnkleConfidenceNaN ==
    /\ Ankle
    /\ leftAngles = ScenarioFlatSeries
    /\ rightAngles = ScenarioFlatSeries
    /\ analysis.confidence = <<>>

(***************************************************************************)
(* C24: a bilateral ROM calculation (hip ROMCalculator, ankle              *)
(* AnkleROMCalculator) given left and right series of different lengths    *)
(* fails fast with a validation error outcome and returns no ROM analysis. *)
(***************************************************************************)
\* the call's outcome is a ROM analysis (it carries the bilateral figures)
ReturnsROMAnalysis == {"left", "right", "asymmetry", "averageROM"} \subseteq DOMAIN analysis

C24_MismatchedLengthsRejected ==
    (Hip \/ Ankle) /\ Len(leftAngles) # Len(rightAngles) => ~ReturnsROMAnalysis

(***************************************************************************)
(* C30: the knee data quality depends only on the gait mode and the        *)
(* asymmetry, the confidence being the constant 0.85: it is never          *)
(* 'excellent' in run or sprint mode, and in walk mode it is 'excellent'   *)
(* exactly when the asymmetry is below 5 degrees.                          *)
(***************************************************************************)
\* the bucket as a function of mode and asymmetry (tenths of a degree)
KneeQualityTable(m, asymmetry) ==
    IF m = "walk"
    THEN (IF asymmetry < 50 THEN "excellent"
          ELSE IF asymmetry < 100 THEN "good"
          ELSE IF asymmetry < 150 THEN "fair"
          ELSE "poor")
    ELSE IF m = "run"
    THEN (IF asymmetry < 150 THEN "good"
          ELSE IF asymmetry < 200 THEN "fair"
          ELSE "poor")
    ELSE (IF asymmetry < 180 THEN "good"
          ELSE IF asymmetry < 250 THEN "fair"
          ELSE "poor")

C30_KneeQualityByModeAndAsymmetry ==
    Knee =>
       /\ analysis.confidence = 85
       /\ analysis.dataQuality = KneeQualityTable(mode, analysis.asymmetry)
       /\ mode \in {"run", "sprint"} => analysis.dataQuality # "excellent"
       /\ mode = "walk" => (analysis.dataQuality = "excellent" <=> analysis.asymmetry < 50)

\* a run-mode analysis whose asymmetry is below the mode's 'excellent'
\* cutoff of 8 degrees and is graded 'good'
C30_Witness ==
    /\ Knee
    /\ mode = "run"
    /\ analysis.asymmetry < 80
    /\ analysis.dataQuality = "good"

(***************************************************************************)
(* C22: the advisories of the hip generateRecommendations and of the ankle *)
(* calculateQualityMetrics appear in the fixed rule order ROM band,        *)
(* asymmetry, data quality, with at most one ROM-band and at most one      *)
(* asymmetry advisory; the 'moderate asymmetry' advisory is emitted for    *)
(* every asymmetry of at least 5 degrees below the high cutoff, and the    *)
(* 'significant asymmetry' advisory for every asymmetry of at least 10     *)
(* degrees.                                                                *)
(***************************************************************************)
Summarised == stage = "summary"

ROMBandAdvisories ==
    {"Hip ROM is below normal range. Consider mobility exercises.",
     "Hip ROM is above normal range. Monitor for hypermobility.",
     "Ankle ROM is below normal range. Consider mobility exercises."}

SignificantAdvisories ==
    {"Significant asymmetry detected. Focus on bilateral training.",
     "Significant ankle asymmetry detected. Focus on bilateral training."}

ModerateAdvisories ==
    {"Moderate asymmetry present. Include unilateral exercises.",
     "Moderate ankle asymmetry detected. Include unilateral exercises."}

\* the rule an advisory belongs to: 1 ROM band, 2 asymmetry, 3 data quality
RuleOf(advisory) ==
    IF advisory \in ROMBandAdvisories THEN 1
    ELSE IF advisory \in SignificantAdvisories \cup ModerateAdvisories THEN 2
    ELSE 3

Emitted(recommendations) == {recommendations[k] : k \in DOMAIN recommendations}

\* rule order, at most one advisory per rule, and the two asymmetry bands
\* (asymmetry in tenths of a degree)
AdvisoriesFollowRules(recommendations, asymmetry) ==
    /\ \A k \in 1..(Len(recommendations) - 1) :
          RuleOf(recommendations[k]) < RuleOf(recommendations[k + 1])
    /\ asymmetry >= 100 => Emitted(recommendations) \cap SignificantAdvisories # {}
    /\ asymmetry >= 50 /\ asymmetry < 100 =>
          Emitted(recommendations) \cap ModerateAdvisories # {}

C22_AdvisoryRules ==
    /\ Summarised =>
          AdvisoriesFollowRules(analysis.recommendations, analysis.analysis.asymmetry)
    /\ Ankle /\ ~IsNaN(analysis.asymmetry) =>
          AdvisoriesFollowRules(analysis.recommendations, analysis.asymmetry[1])

\* a hip asymmetry of exactly 10 degrees gets the moderate advisory
C22_HipTenDegreesModerate ==
    /\ Summarised
    /\ analysis.analysis.asymmetry = 100
    /\ Emitted(analysis.recommendations) \cap SignificantAdvisories = {}
    /\ Emitted(analysis.recommendations) \cap ModerateAdvisories # {}

(***************************************************************************)
(* C28: for every pointsCount n and every list of cycles normalized with   *)
(* that n, each of the six series of calculateAverageAngles has exactly n  *)
(* entries and every entry is a finite number, also when only one leg has  *)
(* cycles.                                                                 *)
(***************************************************************************)
C28_SixFiniteSeriesOfPointsCount ==
    Averaged =>
        \A leg \in Legs : \A joint \in Joints :
            /\ Len(AverageOf(leg, joint)) = pointsCount
            /\ \A i \in 1..Len(AverageOf(leg, joint)) : AverageOf(leg, joint)[i] # NaN

\* cycles of the right leg only, each normalized to pointsCount entries: the
\* left series are 101 zeros
C28_RightLegOnly ==
    /\ Averaged
    /\ LegCyclesOf(normalizedCycles, "left") = <<>>
    /\ \A k \in 1..Len(normalizedCycles) : \A joint \in Joints :
          Len(NormalizedOf(normalizedCycles[k], joint)) = pointsCount
    /\ pointsCount # DefaultPointsCount
    /\ Len(averages.leftKnee) = DefaultPointsCount

(***************************************************************************)
(* C25: validateTransitions has no side effect on its argument: after the  *)
(* call the caller's list and every transition record of it are unchanged, *)
(* so that a second call with the same list returns the same output.       *)
(***************************************************************************)
C25_ArgumentUnchanged ==
    [][/\ ValidateTransitions => transitions' = transitions
       /\ RevalidateTransitions =>
             /\ transitions' = transitions
             /\ validated' = validated]_vars

\* the second record of the caller's list 0, 3 now reads 5
C25_CallerRecordAdjusted ==
    /\ stage = "validated"
    /\ Len(transitions) = 2
    /\ transitions[1].percent = 0
    /\ transitions[2].frame = 3
    /\ transitions[2].percent = 5

(***************************************************************************)
(* C26: for each gait mode of GAIT_MODE_PRESETS the phase boundary values  *)
(* in the order IC, LR, MSt, TSt, PSw, ISw, MSw, TSw are strictly          *)
(* increasing, begin at 0 and end at 100.                                  *)
(***************************************************************************)
\* the boundary values of a mode in the order of the phases
BoundaryValues(m) ==
    LET b == PhaseBoundaries(m)
    IN  <<b.IC, b.LR, b.MSt, b.TSt, b.PSw, b.ISw, b.MSw, b.TSw>>

\* a knee generator of the mode has tagged a position
KneeTagged == stage = "kneePhase"

C26_BoundariesIncrease ==
    KneeTagged =>
        LET v == BoundaryValues(mode)
        IN  /\ v[1] = 0
            /\ v[Len(v)] = 100
            /\ \A k \in 1..(Len(v) - 1) : v[k] < v[k + 1]

\* 80 percent of a sprint cycle lies at the MSw boundary of the mode
C26_Witness == KneeTagged /\ mode = "sprint" /\ percent = 80 /\ phase = <<"MSw">>

(***************************************************************************)
(* C29: in walk mode, for every cycle percent p in [0, 100), the tags of   *)
(* KneeGraphGenerator.getPhaseAtPosition and of                            *)
(* AnkleGraphGenerator.getPhaseAtPosition both are the abbreviation of the *)
(* STANDARD_PHASES phase whose interval [start, end) contains p.           *)
(***************************************************************************)
AnkleTagged == stage = "anklePhase"

\* the abbreviation of the catalog phase whose [start, end) contains p
CatalogTag(p) ==
    LET k == CHOOSE i \in 1..Len(STANDARD_PHASES) :
                /\ STANDARD_PHASES[i].startPercent <= p
                /\ p < STANDARD_PHASES[i].endPercent
    IN  STANDARD_PHASES[k].abbreviation

C29_TagsFollowCatalog ==
    /\ KneeTagged /\ mode = "walk" /\ percent >= 0 /\ percent < 100 =>
          phase = <<CatalogTag(percent)>>
    /\ AnkleTagged /\ percent >= 0 /\ percent < 100 =>
          phase = <<CatalogTag(percent)>>

\* 5 percent of a walk cycle is tagged IC by the knee generator, the catalog
\* phase being LR
C29_KneeTagShifted ==
    /\ KneeTagged
    /\ mode = "walk"
    /\ percent = 5
    /\ phase = <<"IC">>
    /\ CatalogTag(percent) = "LR"

(***************************************************************************)
(* C23: for a list of n knee data points generateCSVData returns exactly   *)
(* n + 1 lines: the header GaitCyclePercent,Phase,Time(s),KneeLeft(deg),   *)
(* KneeRight(deg),GaitMode and then one row per data point, in input       *)
(* order, with its six fields in the header's column order.                *)
(***************************************************************************)
Exported == stage = "csv"

\* the pieces of a text between the occurrences of a separator
RECURSIVE SplitOn(_, _)
SplitOn(text, sep) ==
    IF \A k \in 1..Len(text) : text[k] # sep THEN <<text>>
    ELSE LET first == CHOOSE k \in 1..Len(text) :
                         /\ text[k] = sep
                         /\ \A j \in 1..(k - 1) : text[j] # sep
         IN  <<SubSeq(text, 1, first - 1)>>
                 \o SplitOn(SubSeq(text, first + 1, Len(text)), sep)

CsvLines == SplitOn(csvContent, Newline)

\* the text of one cell: the decimal v / scale, or a string
Decimal(v, scale) == <<NumberCell(v, scale)>>

Text(s) == <<TextCell(s)>>

C23_HeaderAndOneRowPerPoint ==
    Exported =>
        /\ Len(CsvLines) = Len(dataPoints) + 1
        /\ SplitOn(CsvLines[1], Comma)
              = <<Text("GaitCyclePercent"), Text("Phase"), Text("Time(s)"),
                  Text("KneeLeft(deg)"), Text("KneeRight(deg)"), Text("GaitMode")>>
        /\ \A k \in 1..Len(dataPoints) :
              LET fields == SplitOn(CsvLines[k + 1], Comma)
                  point == dataPoints[k]
              IN  /\ Len(fields) = 6
                  /\ fields[1] = Decimal(RoundDiv(point.gaitCyclePercent, 10), 10)
                  /\ fields[2] = Text(point.phase)
                  /\ fields[3] = Decimal(RoundDiv(point.time, 10), 100)
                  /\ fields[4] = Decimal(point.kneeLeft, 10)
                  /\ fields[5] = Decimal(point.kneeRight, 10)
                  /\ fields[6] = Text(mode)

\* three distinct points give the header and three rows
C23_Witness ==
    /\ Exported
    /\ Len(dataPoints) = 3
    /\ dataPoints[1] # dataPoints[2]
    /\ dataPoints[2] # dataPoints[3]
    /\ Len(CsvLines) = 4
    /\ SplitOn(CsvLines[3], Comma)[1] # SplitOn(CsvLines[2], Comma)[1]

(***************************************************************************)
(* C27: after resetAnalysis the status of useAnalysis stays 'idle' and the *)
(* progress stays 0 until startAnalysis is called again, also when an      *)
(* earlier startAnalysis is still in flight at the time of the reset.      *)
(***************************************************************************)
\* resetAnalysis was called and startAnalysis has not been called since
ResetLast == lastCall = "reset"

C27_IdleAfterReset == ResetLast => status = "idle" /\ progress = 0

\* the upload timer of a call in flight at the reset has fired
C27_TimerFiresAfterReset ==
    /\ ResetLast
    /\ status = "processing"
    /\ progress = 30
    /\ currentVideo = <<>>
====
